---------------------------- MODULE Spec2Model ----------------------------
(***************************************************************************)
(* wit: schedule evaluator and actuation state machine (cmd/main.go).      *)
(*                                                                         *)
(* Go strings are modelled as sequences of one-character strings, so that  *)
(* strings.Split, strings.TrimSpace, strconv.Atoi and the JSON encoding of *)
(* the state file are computed character by character.                     *)
(***************************************************************************)
EXTENDS Integers, Sequences, FiniteSets, TLC

(***************************************************************************)
(* Characters with a special role                                          *)
(***************************************************************************)
DQ   == "\""          \* double quote
BS   == "\\"          \* backslash
NL   == "\n"          \* line feed
SP   == " "
LT   == "<"           \* escaped by json.Marshal (HTML escaping)
BAD  == "xFF"         \* a byte that is not valid UTF-8
REPL == "uFFFD"       \* the rune U+FFFD (valid UTF-8)

\* src/cmd/main.go:28-38
onAction     == <<"o", "n">>
offAction    == <<"o", "f", "f">>
noAction     == <<>>
isDisplay    == <<"d", "i", "s", "p", "l", "a", "y">>
weekdayType  == <<"w", "e", "e", "k", "d", "a", "y">>
weekendType  == <<"w", "e", "e", "k", "e", "n", "d">>
commandStart == <<"S", "T", "A", "R", "T">>
commandStop  == <<"S", "T", "O", "P">>

\* action names dispatched by act and doActionCall
calibrateAction  == <<"c", "a", "l", "i", "b", "r", "a", "t", "e">>
togglelockAction == <<"t", "o", "g", "g", "l", "e", "l", "o", "c", "k">>
scheduleAction   == <<"s", "c", "h", "e", "d", "u", "l", "e">>
currentAction    == <<"c", "u", "r", "r", "e", "n", "t">>
noopMode         == <<"n", "o", "o", "p">>

(***************************************************************************)
(* State (src/cmd/main.go:81-87); &State{} is the zero value               *)
(***************************************************************************)
ZeroState == [OpMode |-> <<>>, Schedule |-> <<>>, Manual |-> FALSE,
              Override |-> FALSE, Running |-> FALSE]

(***************************************************************************)
(* strings helpers                                                         *)
(***************************************************************************)
\* F(x), the argument x being evaluated once
Let(x, F(_)) == CHOOSE r \in {F(y) : y \in {x}} : TRUE

IsSpace(c) == c \in {SP, NL, "\t", "\r"}

RECURSIVE TrimLeft(_)
TrimLeft(s) == IF s # <<>> /\ IsSpace(Head(s)) THEN TrimLeft(Tail(s)) ELSE s

RECURSIVE TrimRight(_)
TrimRight(s) ==
    IF s # <<>> /\ IsSpace(s[Len(s)])
    THEN TrimRight(SubSeq(s, 1, Len(s) - 1)) ELSE s

\* strings.TrimSpace
TrimSpace(s) == TrimRight(TrimLeft(s))

\* strings.Split(s, sep) for a one-character separator: always at least one
\* element, empty elements kept
\* the least element of a non-empty set of numbers
Least(S) == CHOOSE j \in S : \A k \in S : j <= k

\* the index of the first character of s from i on that is in C, or
\* Len(s) + 1
IndexFrom(s, i, C) == Least({j \in i..Len(s) : s[j] \in C} \cup {Len(s) + 1})

\* the elements of s from index i on, the next separator being at j
RECURSIVE SplitFrom(_, _, _), SplitAt(_, _, _, _)
SplitAt(s, sep, i, j) ==
    <<SubSeq(s, i, j - 1)>> \o (IF j > Len(s) THEN <<>> ELSE SplitFrom(s, sep, j + 1))

SplitFrom(s, sep, i) == Let(IndexFrom(s, i, {sep}), LAMBDA j : SplitAt(s, sep, i, j))

Split(s, sep) == SplitFrom(s, sep, 1)

\* strings.Join(v, sep) for a one-character or empty separator (a sequence)
RECURSIVE Join(_, _)
Join(v, sep) ==
    IF v = <<>> THEN <<>>
    ELSE IF Len(v) = 1 THEN v[1]
    ELSE v[1] \o sep \o Join(Tail(v), sep)

HasPrefix(s, c) == s # <<>> /\ s[1] = c

Digits == <<"0", "1", "2", "3", "4", "5", "6", "7", "8", "9">>
IsDigit(c) == \E d \in 1..10 : Digits[d] = c
DigitVal(c) == (CHOOSE d \in 1..10 : Digits[d] = c) - 1

RECURSIVE DigitsVal(_, _)
DigitsVal(s, acc) ==
    IF s = <<>> THEN acc ELSE DigitsVal(Tail(s), acc * 10 + DigitVal(Head(s)))

\* strconv.Atoi: optional sign, then one or more decimal digits
Atoi(s) ==
    LET signed == s # <<>> /\ s[1] \in {"+", "-"}
        body   == IF signed THEN Tail(s) ELSE s
    IN  IF body = <<>> \/ \E i \in 1..Len(body) : ~IsDigit(body[i])
        THEN [ok |-> FALSE, val |-> 0]
        ELSE [ok |-> TRUE,
              val |-> IF signed /\ s[1] = "-" THEN 0 - DigitsVal(body, 0)
                      ELSE DigitsVal(body, 0)]

(***************************************************************************)
(* encoding/json as used by setState (json.Marshal) and getState           *)
(* (json.Unmarshal)                                                        *)
(***************************************************************************)
\* a string literal written without escaping
EscapeChar_raw(c) == <<c>>

\* one character of a JSON string literal, as json.Marshal writes it
EscapeChar(c) ==
    IF c = DQ THEN <<BS, DQ>>
    ELSE IF c = BS THEN <<BS, BS>>
    ELSE IF c = NL THEN <<BS, "n">>
    ELSE IF c = "\t" THEN <<BS, "t">>
    ELSE IF c = "\r" THEN <<BS, "r">>
    ELSE IF c = LT THEN <<BS, "u", "0", "0", "3", "c">>
    ELSE IF c = BAD THEN <<BS, "u", "f", "f", "f", "d">>
    ELSE <<c>>

\* the characters json.Marshal does not copy as they are
Escaped == {DQ, BS, NL, "\t", "\r", LT, BAD}

\* the literal of s from index i on: the characters up to the next escaped
\* one (at j) are copied
RECURSIVE EscapeFrom(_, _), EscapeAt(_, _, _)
EscapeAt(s, i, j) ==
    SubSeq(s, i, j - 1)
        \o (IF j > Len(s) THEN <<>> ELSE EscapeChar(s[j]) \o EscapeFrom(s, j + 1))

EscapeFrom(s, i) == Let(IndexFrom(s, i, Escaped), LAMBDA j : EscapeAt(s, i, j))

EscapeString(s) == EscapeFrom(s, 1)

Quote(s) == <<DQ>> \o EscapeString(s) \o <<DQ>>

BoolLit(b) == IF b THEN <<"t", "r", "u", "e">> ELSE <<"f", "a", "l", "s", "e">>

K_OpMode   == <<"O", "p", "M", "o", "d", "e">>
K_Schedule == <<"S", "c", "h", "e", "d", "u", "l", "e">>
K_Manual   == <<"M", "a", "n", "u", "a", "l">>
K_Override == <<"O", "v", "e", "r", "r", "i", "d", "e">>
K_Running  == <<"R", "u", "n", "n", "i", "n", "g">>

\* json.Marshal(s) for s *State
Marshal(s) ==
    <<"{">> \o Quote(K_OpMode)   \o <<":">> \o Quote(s.OpMode)
            \o <<",">> \o Quote(K_Schedule) \o <<":">> \o Quote(s.Schedule)
            \o <<",">> \o Quote(K_Manual)   \o <<":">> \o BoolLit(s.Manual)
            \o <<",">> \o Quote(K_Override) \o <<":">> \o BoolLit(s.Override)
            \o <<",">> \o Quote(K_Running)  \o <<":">> \o BoolLit(s.Running)
            \o <<"}">>

ScanErr == [ok |-> FALSE, val |-> <<>>, next |-> 0]

\* the character an escape sequence starting at b[i] (after the backslash)
\* stands for
Unescape(b, i) ==
    IF i > Len(b) THEN ScanErr
    ELSE IF b[i] \in {DQ, BS, "/"} THEN [ok |-> TRUE, val |-> <<b[i]>>, next |-> i + 1]
    ELSE IF b[i] = "n" THEN [ok |-> TRUE, val |-> <<NL>>, next |-> i + 1]
    ELSE IF b[i] = "t" THEN [ok |-> TRUE, val |-> <<"\t">>, next |-> i + 1]
    ELSE IF b[i] = "r" THEN [ok |-> TRUE, val |-> <<"\r">>, next |-> i + 1]
    ELSE IF b[i] = "u" /\ i + 4 <= Len(b)
    THEN LET hex == SubSeq(b, i + 1, i + 4) IN
         IF hex = <<"0", "0", "3", "c">> THEN [ok |-> TRUE, val |-> <<LT>>, next |-> i + 5]
         ELSE IF hex = <<"f", "f", "f", "d">> THEN [ok |-> TRUE, val |-> <<REPL>>, next |-> i + 5]
         ELSE ScanErr
    ELSE ScanErr

\* reads a string literal whose opening quote is at b[i-1]; e is the escape
\* sequence decoded at a backslash
\* the characters of a string literal the decoder does not copy as they are
Special == {DQ, BS, NL, "\t", "\r", BAD}

RECURSIVE ScanString(_, _, _), ScanEscape(_, _, _), ScanAt(_, _, _)
ScanEscape(b, acc, e) ==
    IF e.ok THEN ScanString(b, e.next, acc \o e.val) ELSE ScanErr

\* the literal at its next special character, b[i]
ScanAt(b, i, acc) ==
    IF i > Len(b) THEN ScanErr
    ELSE IF b[i] = DQ THEN [ok |-> TRUE, val |-> acc, next |-> i + 1]
    ELSE IF b[i] \in {NL, "\t", "\r"} THEN ScanErr
    ELSE IF b[i] = BS THEN ScanEscape(b, acc, Unescape(b, i + 1))
    ELSE ScanString(b, i + 1, Append(acc, REPL))

\* the characters up to the next special one (at j) are copied
ScanString(b, i, acc) ==
    Let(IndexFrom(b, i, Special), LAMBDA j : ScanAt(b, j, acc \o SubSeq(b, i, j - 1)))

StartsWith(b, i, w) == i + Len(w) - 1 <= Len(b) /\ SubSeq(b, i, i + Len(w) - 1) = w

ValErr == [ok |-> FALSE, isStr |-> FALSE, str |-> <<>>, bool |-> FALSE, next |-> 0]

\* the JSON value of the string literal read as r
StringValue(r) ==
    IF r.ok THEN [ok |-> TRUE, isStr |-> TRUE, str |-> r.val, bool |-> FALSE, next |-> r.next]
    ELSE ValErr

\* a JSON value starting at b[i]: a string or a boolean literal
ScanValue(b, i) ==
    IF i > Len(b) THEN ValErr
    ELSE IF b[i] = DQ THEN StringValue(ScanString(b, i + 1, <<>>))
    ELSE IF StartsWith(b, i, BoolLit(TRUE))
    THEN [ok |-> TRUE, isStr |-> FALSE, str |-> <<>>, bool |-> TRUE, next |-> i + 4]
    ELSE IF StartsWith(b, i, BoolLit(FALSE))
    THEN [ok |-> TRUE, isStr |-> FALSE, str |-> <<>>, bool |-> FALSE, next |-> i + 5]
    ELSE ValErr

\* stores a decoded member into the State being filled; a value of the wrong
\* JSON type for the field is an UnmarshalTypeError, an unknown key is skipped
SetField(st, key, v) ==
    IF key = K_OpMode THEN [ok |-> v.isStr, state |-> [st EXCEPT !.OpMode = v.str]]
    ELSE IF key = K_Schedule THEN [ok |-> v.isStr, state |-> [st EXCEPT !.Schedule = v.str]]
    ELSE IF key = K_Manual THEN [ok |-> ~v.isStr, state |-> [st EXCEPT !.Manual = v.bool]]
    ELSE IF key = K_Override THEN [ok |-> ~v.isStr, state |-> [st EXCEPT !.Override = v.bool]]
    ELSE IF key = K_Running THEN [ok |-> ~v.isStr, state |-> [st EXCEPT !.Running = v.bool]]
    ELSE [ok |-> TRUE, state |-> st]

DecodeErr == [ok |-> FALSE, state |-> ZeroState]

\* the members of a JSON object, b[i] being the opening quote of a key: the
\* key k, then the value v, then the field f it sets, then the next member
RECURSIVE ScanMembers(_, _, _), MemberKey(_, _, _), MemberValue(_, _, _, _),
          MemberSet(_, _, _)
MemberSet(b, v, f) ==
    IF ~f.ok THEN DecodeErr
    ELSE IF b[v.next] = "," THEN ScanMembers(b, v.next + 1, f.state)
    ELSE IF b[v.next] = "}" /\ v.next = Len(b) THEN [ok |-> TRUE, state |-> f.state]
    ELSE DecodeErr

MemberValue(b, st, k, v) ==
    IF ~v.ok \/ v.next > Len(b) THEN DecodeErr
    ELSE Let(SetField(st, k.val, v), LAMBDA f : MemberSet(b, v, f))

MemberKey(b, st, k) ==
    IF ~k.ok \/ k.next > Len(b) \/ b[k.next] # ":" THEN DecodeErr
    ELSE Let(ScanValue(b, k.next + 1), LAMBDA v : MemberValue(b, st, k, v))

ScanMembers(b, i, st) ==
    IF i > Len(b) \/ b[i] # DQ THEN DecodeErr
    ELSE Let(ScanString(b, i + 1, <<>>), LAMBDA k : MemberKey(b, st, k))

\* json.Unmarshal(b, &obj) with obj a fresh &State{}
Unmarshal(b) ==
    IF b = <<>> \/ b[1] # "{" THEN DecodeErr
    ELSE IF Len(b) = 2 /\ b[2] = "}" THEN [ok |-> TRUE, state |-> ZeroState]
    ELSE ScanMembers(b, 2, ZeroState)

(***************************************************************************)
(* Schedule evaluation: parseSchedule (src/cmd/main.go:389-454)            *)
(***************************************************************************)
nil == "nil"

newScheduleTime(hr, min, action) == [hour |-> hr, min |-> min, action |-> action]

RECURSIVE ParseLines(_, _, _), AddLine(_, _, _, _)
NoTiming == newScheduleTime(0, 0, noAction)

\* the line is invalid
LineErr(e) == [err |-> e, skip |-> TRUE, timing |-> NoTiming]

\* the line adds no timing
LineSkip == [err |-> nil, skip |-> TRUE, timing |-> NoTiming]

\* the fields checked without the filter on the day type
ParseFields_anyDay(toggle, hour, min, dayType, isWeekend) ==
    IF (toggle # onAction /\ toggle # offAction) \/ ~hour.ok \/ ~min.ok
    THEN LineErr("invalid")
    ELSE [err |-> nil, skip |-> FALSE,
          timing |-> newScheduleTime(hour.val, min.val, toggle)]

\* the filter on the day type applied before the other checks
ParseFields_filterFirst(toggle, hour, min, dayType, isWeekend) ==
    IF (dayType = weekendType \/ dayType = weekdayType)
           /\ isWeekend # (dayType = weekendType)
    THEN LineSkip
    ELSE ParseFields_anyDay(toggle, hour, min, dayType, isWeekend)

\* main.go:406-438: the checks of the four fields, in the order of the code
ParseFields(toggle, hour, min, dayType, isWeekend) ==
    IF toggle # onAction /\ toggle # offAction
    THEN LineErr("schedule can only be 'on' or 'off'")
    ELSE IF ~hour.ok THEN LineErr("strconv.Atoi")
    ELSE IF hour.val < 0 \/ hour.val > 23 THEN LineErr("hour is invalid")
    ELSE IF ~min.ok THEN LineErr("strconv.Atoi")
    ELSE IF min.val < 0 \/ min.val > 59 THEN LineErr("minute is invalid")
    ELSE IF dayType = weekendType \/ dayType = weekdayType
    THEN IF isWeekend # (dayType = weekendType)
         THEN LineSkip
         ELSE [err |-> nil, skip |-> FALSE,
               timing |-> newScheduleTime(hour.val, min.val, toggle)]
    ELSE LineErr("invalid day type")

\* main.go:401-405: the line split at spaces
ParseParts(parts, isWeekend) ==
    IF Len(parts) # 4 THEN LineErr("invalid schedule line")
    ELSE Let(Atoi(parts[2]), LAMBDA hour :
         Let(Atoi(parts[1]), LAMBDA min :
             ParseFields(parts[4], hour, min, parts[3], isWeekend)))

\* one line of the schedule: skip = TRUE when the line adds no timing
\* (blank, comment, or a day type other than today's)
ParseLine(line, isWeekend) ==
    IF line = <<>> \/ HasPrefix(line, "#") THEN LineSkip
    ELSE Let(Split(TrimSpace(line), SP), LAMBDA parts : ParseParts(parts, isWeekend))

\* an invalid line skipped instead of aborting the evaluation
AddLine_skipBad(lines, isWeekend, timings, r) ==
    ParseLines(Tail(lines), isWeekend,
               IF r.skip \/ r.err # nil THEN timings ELSE Append(timings, r.timing))

\* the timings after the line parsed as r
AddLine(lines, isWeekend, timings, r) ==
    IF r.err # nil THEN [err |-> r.err, timings |-> <<>>]
    ELSE ParseLines(Tail(lines), isWeekend,
                    IF r.skip THEN timings ELSE Append(timings, r.timing))

\* the loop over the lines (main.go:397-440): the first invalid line aborts
ParseLines(lines, isWeekend, timings) ==
    IF lines = <<>> THEN [err |-> nil, timings |-> timings]
    ELSE Let(ParseLine(Head(lines), isWeekend),
             LAMBDA r : AddLine(lines, isWeekend, timings, r))

\* a matching loop that keeps the first timing not after the current time
RECURSIVE MatchFrom_first(_, _, _, _)
MatchFrom_first(timings, i, match, curr) ==
    IF i > Len(timings) \/ match # noAction THEN match
    ELSE MatchFrom_first(timings, i + 1,
                         IF curr.hour >= timings[i].hour THEN timings[i].action
                         ELSE match, curr)

\* a matching loop that never stops before the end of the list
RECURSIVE MatchFrom_noBreak(_, _, _, _)
MatchFrom_noBreak(timings, i, match, curr) ==
    IF i > Len(timings) THEN match
    ELSE MatchFrom_noBreak(timings, i + 1,
                           IF curr.min >= timings[i].min /\ curr.hour >= timings[i].hour
                           THEN timings[i].action ELSE match, curr)

\* a matching loop that compares times of day chronologically
RECURSIVE MatchFrom_chrono(_, _, _, _)
MatchFrom_chrono(timings, i, match, curr) ==
    IF i > Len(timings) THEN match
    ELSE MatchFrom_chrono(timings, i + 1,
                          IF curr.hour * 60 + curr.min
                                >= timings[i].hour * 60 + timings[i].min
                          THEN timings[i].action ELSE match, curr)

\* the matching loop (main.go:441-452), from index i with the match so far
RECURSIVE MatchFrom(_, _, _, _)
MatchFrom(timings, i, match, curr) ==
    IF i > Len(timings) THEN match
    ELSE LET timing == timings[i]
             m == IF curr.min >= timing.min /\ curr.hour >= timing.hour
                  THEN timing.action ELSE match
         IN  IF m # noAction /\ curr.min < timing.min /\ curr.hour < timing.hour
             THEN m
             ELSE MatchFrom(timings, i + 1, m, curr)

\* main.go:441-453: the action matched among the parsed timings
Matched(parsed, curr) ==
    IF parsed.err # nil THEN [err |-> parsed.err, action |-> noAction]
    ELSE [err |-> nil, action |-> MatchFrom(parsed.timings, 1, noAction, curr)]

\* an evaluation without the synthetic 00:00 off timing
parseSchedule_noSynthetic(schedule, hour, minute, isWeekend) ==
    Matched(ParseLines(Split(TrimSpace(schedule), NL), isWeekend, <<>>),
            newScheduleTime(hour, minute, <<>>))

\* parseSchedule, with time.Now() passed in: hour, minute and whether the
\* day is a Saturday or Sunday
parseSchedule(schedule, hour, minute, isWeekend) ==
    Let(Split(TrimSpace(schedule), NL), LAMBDA lines :
        Let(ParseLines(lines, isWeekend, <<newScheduleTime(0, 0, offAction)>>),
            LAMBDA parsed : Matched(parsed, newScheduleTime(hour, minute, <<>>))))

(***************************************************************************)
(* Bounds of the model and the inputs drawn from them                      *)
(***************************************************************************)
MaxReq    == 2      \* web requests served in one behaviour
MaxFaults == 1      \* injected storage / Actuator failures in one behaviour
MaxDay    == 1      \* calendar days after the start day

Daemon == "daemon"                 \* go schedulerDaemon(ctx), main.go:282
Web    == {"w1", "w2"}             \* goroutines serving doActionCall
Actors == Web \cup {Daemon}
Free   == "free"

HEAT == <<"H", "E", "A", "T">>
\* ctx.cfg.opModes: the operation modes read from the LIRC configuration
opModes == <<HEAT>>

\* schedule texts
SchedDay   == <<"0", SP, "8", SP>> \o weekdayType \o <<SP>> \o onAction
SchedBad   == <<"7", "0", SP, "8", SP>> \o weekdayType \o <<SP>> \o onAction
SchedOdd   == <<"#", DQ, NL, "#">>
SchedByte  == <<"#", BAD>>

\* req.Form of a POST to /wit/schedule: key -> list of values (absent keys
\* are not in the map)
NoForm   == [keys |-> {}, opmode |-> <<>>, sched |-> <<>>]
FormDay  == [keys |-> {"opmode", "sched"}, opmode |-> <<HEAT>>, sched |-> <<SchedDay, <<SP>>>>]
FormMan  == [keys |-> {"opmode", "manual"}, opmode |-> <<noopMode>>, sched |-> <<>>]
FormBad  == [keys |-> {"opmode", "manual", "sched"}, opmode |-> <<HEAT>>, sched |-> <<SchedBad>>]
FormOdd  == [keys |-> {"opmode", "sched"}, opmode |-> <<<<BS, LT>>>>, sched |-> <<SchedOdd>>]
FormByte == [keys |-> {"sched"}, opmode |-> <<>>, sched |-> <<SchedByte>>]
Forms    == {FormDay, FormMan, FormBad, FormOdd, FormByte}

bogusAction == <<"x">>

\* the requests a client can send: action name, method, form
Requests ==
    [action : {calibrateAction, onAction, offAction, togglelockAction,
               bogusAction, isDisplay, currentAction},
     isPost : {TRUE}, form : {NoForm}]
    \cup [action : {scheduleAction}, isPost : {TRUE}, form : Forms]
    \cup [action : {onAction, calibrateAction, isDisplay}, isPost : {FALSE}, form : {NoForm}]

\* the requests drawn when goroutines run concurrently
ConcRequests ==
    [action : {calibrateAction, onAction, offAction, togglelockAction},
     isPost : {TRUE}, form : {NoForm}]
    \cup [action : {scheduleAction}, isPost : {TRUE}, form : {FormMan}]
    \cup [action : {isDisplay}, isPost : {FALSE}, form : {NoForm}]

\* requests that only display the state
LiveRequests == [action : {isDisplay}, isPost : {FALSE}, form : {NoForm}]

\* the times of day sampled by the clock, in order
TimeSlots == << [hour |-> 7, min |-> 0], [hour |-> 9, min |-> 30] >>

\* state files the program may find when it starts
StartStates ==
    [OpMode : {<<>>, HEAT}, Schedule : {<<>>, SchedDay},
     Manual : BOOLEAN, Override : BOOLEAN, Running : BOOLEAN]

\* state files found at the start when goroutines run concurrently
ConcStartStates ==
    [OpMode : {HEAT}, Schedule : {SchedDay},
     Manual : {FALSE}, Override : BOOLEAN, Running : BOOLEAN]

\* a rule of a schedule and the line that states it
Rule(min, hour, dayType, action) ==
    [min |-> min, hour |-> hour, dayType |-> dayType, action |-> action]

Itoa(n) ==
    IF n < 10 THEN <<Digits[n + 1]>>
    ELSE <<Digits[(n \div 10) + 1], Digits[(n % 10) + 1]>>

RuleLine(r) ==
    Itoa(r.min) \o <<SP>> \o Itoa(r.hour) \o <<SP>> \o r.dayType \o <<SP>> \o r.action

\* the schedule text of a list of rules
RulesText(rules) == Join([i \in 1..Len(rules) |-> RuleLine(rules[i])], <<NL>>)

\* rule lists with minute 0 and ascending hours, all of one day type d
Ascending(d) ==
    { <<Rule(0, 8, d, onAction), Rule(0, 18, d, offAction)>>,
      <<Rule(0, 8, d, onAction)>>,
      <<Rule(0, 7, d, offAction), Rule(0, 9, d, onAction), Rule(0, 19, d, onAction)>>,
      <<Rule(0, 9, d, onAction), Rule(0, 10, d, offAction), Rule(0, 18, d, onAction),
        Rule(0, 19, d, offAction)>> }

AscendingRules == Ascending(weekdayType) \cup Ascending(weekendType)

\* the schedule of a single weekend rule
WeekendRule == <<Rule(0, 9, weekendType, onAction)>>

\* other rule lists whose lines are all valid: minutes other than 0, hours
\* not in order, both day types
MixedRules ==
    { <<Rule(30, 8, weekdayType, onAction), Rule(0, 18, weekdayType, offAction)>>,
      <<Rule(0, 18, weekdayType, offAction), Rule(0, 8, weekdayType, onAction)>>,
      <<Rule(0, 9, weekendType, onAction), Rule(30, 7, weekdayType, onAction)>>,
      <<Rule(59, 23, weekendType, onAction), Rule(0, 0, weekdayType, onAction)>>,
      <<Rule(45, 10, weekdayType, offAction), Rule(0, 9, weekdayType, onAction)>> }

\* the schedule of a single rule at 00:50, of day type d
LateRule(d) == <<Rule(50, 0, d, onAction)>>

ValidRules ==
    AscendingRules \cup {WeekendRule} \cup MixedRules
        \cup {LateRule(weekdayType), LateRule(weekendType)}

\* valid schedule texts: the rule lists as they are, and some with comment
\* lines, empty lines and surrounding white space
SchedNoisy ==
    <<SP, NL>> \o SchedDay \o <<SP, NL, "#", "o", "n", NL>>
        \o RuleLine(Rule(0, 18, weekdayType, offAction)) \o <<NL, SP>>

ValidTexts ==
    {RulesText(rules) : rules \in ValidRules}
    \cup {<<>>, <<"#", SP, "x", NL, NL>> \o SchedDay, SchedNoisy}

\* invalid lines, one for each check of the parser
BadLines ==
    { SchedBad,                                                      \* minute 70
      <<"0", SP, "2", "4", SP>> \o weekdayType \o <<SP>> \o onAction,  \* hour 24
      <<"0", SP, "8", SP, "a", "n", "y", SP>> \o onAction,            \* day type
      <<"0", SP, "8", SP>> \o weekdayType \o <<SP, "u", "p">>,        \* action
      <<"0", SP, "8", SP>> \o weekdayType,                           \* 3 tokens
      SchedDay \o <<SP, "x">>,                                       \* 5 tokens
      <<"-", "1", SP, "8", SP>> \o weekdayType \o <<SP>> \o onAction,  \* minute -1
      <<"7", "0", SP, "9", SP>> \o weekendType \o <<SP>> \o onAction,  \* weekend, 70
      <<"x", SP, "8", SP>> \o weekdayType \o <<SP>> \o onAction }      \* not a number

\* the valid lines put around an invalid one
Valid1 == RuleLine(Rule(0, 7, weekdayType, onAction))
Valid2 == RuleLine(Rule(0, 8, weekendType, offAction))

\* schedule texts with one invalid line: alone, after one and two valid
\* lines, before a valid line, between valid lines
InvalidTexts ==
    UNION { { b,
              Valid1 \o <<NL>> \o b,
              Valid1 \o <<NL>> \o Valid2 \o <<NL>> \o b,
              b \o <<NL>> \o Valid1,
              Valid1 \o <<NL, "#", NL>> \o b \o <<NL>> \o Valid2 } : b \in BadLines }

\* state files whose schedule the daemon evaluates
EvalStates ==
    [OpMode : {HEAT}, Schedule : ValidTexts \cup InvalidTexts,
     Manual : {FALSE}, Override : {FALSE}, Running : BOOLEAN]

\* the times at which the schedules are evaluated: a Thursday, a Saturday
\* and a Sunday
EvalClocks ==
    [day : {0, 2, 3}, hour : {7, 8, 9, 10, 18, 19}, min : {0, 30}]
        \cup [day : {0, 2, 3}, hour : {23}, min : {5}]

\* state files holding a lock, the schedule being valid or not
LiveStartStates ==
    [OpMode : {HEAT}, Schedule : {SchedDay, SchedBad},
     Manual : BOOLEAN, Override : {TRUE}, Running : BOOLEAN]

(***************************************************************************)
(* The program state                                                       *)
(***************************************************************************)
VARIABLES
    file,       \* ctx.stateFile: [exists, data]
    mutex,      \* lock (main.go:23): Free or the actor holding it
    proc,       \* per goroutine: position and local variables
    today,      \* schedulerDaemon's today (the day of month it holds)
    now,        \* schedulerDaemon's now
    clock,      \* time.Now(): [day, hour, min]
    faults,     \* failures injected so far
    reqs,       \* requests accepted so far
    obs,        \* observations of the call in progress, per goroutine
    hist        \* history: [lockWritten, last, actuated]

vars == <<file, mutex, proc, today, now, clock, faults, reqs, obs, hist>>

GetSites == {"act_get", "display_get", "current_get", "daemon_get", "sched_get"}
SetSites == {"calibrate_set", "override_set", "running_set", "togglelock_set",
             "schedule_set", "expiry_set"}

\* every caller taken for a web request
webRequest_any(a) == TRUE

webRequest(a) == a # Daemon        \* req != nil (main.go:291)

Rest(a) == IF a = Daemon THEN "sleep" ELSE "idle"

\* record r with the fields of f replaced
Merge(r, f) == [k \in DOMAIN r |-> IF k \in DOMAIN f THEN f[k] ELSE r[k]]

Proc0(a) == [pc |-> Rest(a), io |-> "none", ioErr |-> nil, state |-> ZeroState,
             action |-> noAction, isChange |-> FALSE, form |-> NoForm,
             canChange |-> TRUE, err |-> nil]

NoFile == [exists |-> FALSE, data |-> <<>>]

\* what getState would return for the file f, without a read failure
Persisted(f) ==
    IF f.exists THEN Unmarshal(f.data) ELSE [ok |-> TRUE, state |-> ZeroState]

\* the decoded file u holds a lock
Locked(u) == u.ok /\ u.state.Override

\* observations of the act call in progress (nSet: setState calls, nExec:
\* Actuator invocations, xFault: the Actuator failed, pre: the file when the
\* call began, afterLock: its getState ran after an interactive on/off had
\* persisted Override = true) and of the daemon cycle or request in progress
\* (nOvr: writes that changed the persisted Override; sFault: a read or
\* write failed; cyc: the file when it began; sawManual: the cycle's own
\* getState returned Manual = true)
ObsStart(f) == [nSet |-> 0, nExec |-> 0, xFault |-> FALSE, pre |-> f,
                afterLock |-> FALSE, nOvr |-> 0, sFault |-> FALSE,
                wasOvr |-> FALSE, cyc |-> f, sawManual |-> FALSE]

Obs0 == ObsStart(NoFile)

\* history of the run: lockWritten, an interactive on/off has persisted
\* Override = true and no later write has persisted Override = false; last,
\* the action and starting file of the latest request when it was a
\* successful POST and no other goroutine has acted since; actuated, the
\* direction of the latest Actuator invocation that succeeded ("none"
\* before the first, "void" once a calibrate has been persisted)
NoLast == [action |-> noAction, pre |-> NoFile]
Hist0  == [lockWritten |-> FALSE, last |-> NoLast, actuated |-> "none"]

\* the history a State file found at the start stands for: Running = true
\* was recorded by an earlier successful on
HistOf(f) ==
    [Hist0 EXCEPT !.actuated = IF f.exists /\ Unmarshal(f.data).state.Running
                               THEN "on" ELSE "none"]

IsWeekend(day) == (day % 7) \in {2, 3}     \* the start day is a Thursday
Hour   == clock.hour
Minute == clock.min

\* the clock at the i-th sampled time of the given day
ClockAt(day, i) == [day |-> day, hour |-> TimeSlots[i].hour, min |-> TimeSlots[i].min]

InitFrom(S, c, f, r) ==
    /\ file \in {NoFile} \cup {[exists |-> TRUE, data |-> Marshal(s)] : s \in S}
    /\ mutex = Free
    /\ proc = [a \in Actors |-> Proc0(a)]
    /\ today = c.day
    /\ now = c.day
    /\ clock = c
    /\ faults = f
    /\ reqs = r
    /\ obs = [a \in Actors |-> Obs0]
    /\ hist = HistOf(file)

Init     == InitFrom(StartStates, ClockAt(0, 1), 0, 0)

\* the concurrent runs start late in the day, inject no failures and serve
\* one request
ConcInit == InitFrom(ConcStartStates, ClockAt(0, Len(TimeSlots)), MaxFaults, MaxReq - 1)

\* the runs about the expiry of a lock start locked, with one request left
LiveInit == InitFrom(LiveStartStates, ClockAt(0, Len(TimeSlots)), 0, MaxReq - 1)

(***************************************************************************)
(* act (src/cmd/main.go:290-387), between its calls of getState, setState  *)
(* and the Actuator.  p is the goroutine's record.                         *)
(***************************************************************************)
ActReturn(p, e) == Merge(p, [pc |-> "act_ret", err |-> e])

\* no operation mode taken for configured
ValidMode_none(m) == FALSE

\* every operation mode taken for configured
ValidMode_any(m) == TRUE

\* main.go:329-335
ValidMode(m) == \E i \in 1..Len(opModes) : opModes[i] = m

\* on/off that does not look at canChange
Actuate_unlocked(p) ==
    IF (p.action = onAction) # p.state.Running
    THEN IF ValidMode(p.state.OpMode) THEN Merge(p, [pc |-> "exec"])
         ELSE ActReturn(p, "invalid mode")
    ELSE ActReturn(p, nil)

\* on/off that does not compare the direction with Running
Actuate_always(p) ==
    IF p.canChange
    THEN IF ValidMode(p.state.OpMode) THEN Merge(p, [pc |-> "exec"])
         ELSE ActReturn(p, "invalid mode")
    ELSE ActReturn(p, nil)

\* main.go:316-347, after the Override write of an interactive on/off
Actuate(p) ==
    LET isOn      == p.action = onAction
        actuating == IF isOn THEN ~p.state.Running ELSE p.state.Running
    IN  IF p.canChange /\ actuating
        THEN IF ValidMode(p.state.OpMode)
             THEN Merge(p, [pc |-> "exec"])
             ELSE ActReturn(p, "invalid mode")
        ELSE ActReturn(p, nil)

\* all orders in which range req.Form may visit the keys
RECURSIVE Orders(_)
Orders(S) ==
    IF S = {} THEN {<<>>}
    ELSE UNION {{<<k>> \o o : o \in Orders(S \ {k})} : k \in S}

\* main.go:360-364: the operation mode selected in the form
SetMode(acc, selectedMode) ==
    IF selectedMode # noopMode
    THEN Merge(acc, [state |-> [acc.state EXCEPT !.OpMode = selectedMode]])
    ELSE acc

\* the schedule of the form taken without validation
SetSchedule_unchecked(acc, schedule) == Merge(acc, [schedule |-> schedule])

\* main.go:367-372: the schedule of the form, validated by parseSchedule
SetSchedule(acc, schedule) ==
    Merge(acc, [err |-> parseSchedule(schedule, Hour, Minute, IsWeekend(clock.day)).err,
                schedule |-> schedule])

\* main.go:358-373: one key of the form
FormKey(form, k, acc) ==
    IF k = "opmode" THEN SetMode(acc, TrimSpace(Join(form.opmode, <<>>)))
    ELSE IF k = "manual" THEN Merge(acc, [isManual |-> TRUE])
    ELSE IF k = "sched" THEN SetSchedule(acc, Join(form.sched, <<NL>>))
    ELSE acc

\* main.go:357-374: the loop over the form in the given order of keys, left
\* at the first invalid schedule; acc = [err, state, isManual, schedule]
RECURSIVE FormLoop(_, _, _)
FormLoop(form, order, acc) ==
    IF order = <<>> \/ acc.err # nil THEN acc
    ELSE FormLoop(form, Tail(order), FormKey(form, Head(order), acc))

\* a commit of the schedule as submitted, white space included
ScheduleEnd_raw(p, r) ==
    IF r.err # nil THEN ActReturn(Merge(p, [state |-> r.state]), r.err)
    ELSE Merge(p, [pc |-> "schedule_set",
                   state |-> [r.state EXCEPT !.Manual = r.isManual,
                                             !.Schedule = r.schedule]])

\* a commit that leaves Manual as it was
ScheduleEnd_keepManual(p, r) ==
    IF r.err # nil THEN ActReturn(Merge(p, [state |-> r.state]), r.err)
    ELSE Merge(p, [pc |-> "schedule_set",
                   state |-> [r.state EXCEPT !.Schedule = TrimSpace(r.schedule)]])

\* main.go:375-379: after the loop, r being its outcome
ScheduleEnd(p, r) ==
    IF r.err # nil THEN ActReturn(Merge(p, [state |-> r.state]), r.err)
    ELSE Merge(p, [pc |-> "schedule_set",
                   state |-> [r.state EXCEPT !.Manual = r.isManual,
                                             !.Schedule = TrimSpace(r.schedule)]])

\* main.go:353-379 up to the setState call
ScheduleBranch(p, order) ==
    ScheduleEnd(p, FormLoop(p.form, order,
                            [err |-> nil, state |-> p.state, isManual |-> FALSE,
                             schedule |-> <<>>]))

\* calibrate that sets Running instead of negating it
Calibrate_on(p) ==
    Merge(p, [pc |-> "calibrate_set", state |-> [p.state EXCEPT !.Running = TRUE]])

\* main.go:302-306: calibrate, up to its setState call
Calibrate(p) ==
    Merge(p, [pc |-> "calibrate_set",
              state |-> [p.state EXCEPT !.Running = ~p.state.Running]])

\* an interactive on/off that does not persist the lock
SetOverride_none(p) == Actuate(p)

\* main.go:310-313: on/off by a web request when not manual, up to the
\* setState call that persists the lock
SetOverride(p) ==
    Merge(p, [pc |-> "override_set", state |-> [p.state EXCEPT !.Override = TRUE]])

\* togglelock that sets the lock instead of negating it
ToggleLock_set(p) ==
    Merge(p, [pc |-> "togglelock_set", state |-> [p.state EXCEPT !.Override = TRUE]])

\* main.go:348-352: togglelock, up to its setState call
ToggleLock(p) ==
    Merge(p, [pc |-> "togglelock_set",
              state |-> [p.state EXCEPT !.Override = ~p.state.Override]])

\* a switch whose default branch is the calibrate branch
ActBranch_default(a, p) ==
    IF ~p.isChange THEN {ActReturn(p, nil)} ELSE {Calibrate(p)}

\* a switch on the action that does not look at isChange
ActBranch_change(a, p) ==
    IF p.action = calibrateAction THEN {Calibrate(p)}
    ELSE IF p.action \in {onAction, offAction} THEN {Actuate(p)}
    ELSE {ActReturn(p, nil)}

\* main.go:300-386: the switch on the action
ActBranch(a, p) ==
    IF ~p.isChange THEN {ActReturn(p, nil)}
    ELSE IF p.action = calibrateAction THEN {Calibrate(p)}
    ELSE IF p.action \in {onAction, offAction}
    THEN IF ~p.state.Manual /\ webRequest(a) THEN {SetOverride(p)} ELSE {Actuate(p)}
    ELSE IF p.action = togglelockAction THEN {ToggleLock(p)}
    ELSE IF p.action = scheduleAction
    THEN {ScheduleBranch(p, o) : o \in Orders(p.form.keys)}
    ELSE {ActReturn(p, nil)}

\* main.go:297-386: from the successful getState to the next call
ActSwitch(a, p) ==
    ActBranch(a, Merge(p, [canChange |-> ~(p.state.Override /\ ~webRequest(a))]))

(***************************************************************************)
(* schedulerDaemon and doScheduled (main.go:202-243), between their calls  *)
(***************************************************************************)
\* a daemon that stops at an error
CycleEnd_halt(p) ==
    Merge(p, [pc |-> IF p.err # nil \/ p.ioErr # nil THEN "halt" ELSE "cycle_end"])

\* main.go:238-241: the cycle is over, whatever it returned
CycleEnd(p) == Merge(p, [pc |-> "cycle_end"])

\* a scheduler that runs in manual mode too
AfterExpiry_always(p) == Merge(p, [pc |-> "sched_get"])

\* main.go:233-237
AfterExpiry(p) ==
    IF ~p.state.Manual THEN Merge(p, [pc |-> "sched_get"]) ELSE CycleEnd(p)

\* expiry that does not look at the day
AfterDaemonGet_sameDay(p) ==
    IF p.state.Manual /\ p.state.Override
    THEN Merge(p, [pc |-> "expiry_set",
                   state |-> [p.state EXCEPT !.Override = FALSE]])
    ELSE AfterExpiry(p)

\* expiry on a change of day only, whatever Manual is
AfterDaemonGet_dayOnly(p) ==
    IF now # today /\ p.state.Override
    THEN Merge(p, [pc |-> "expiry_set",
                   state |-> [p.state EXCEPT !.Override = FALSE]])
    ELSE AfterExpiry(p)

\* expiry that writes the State back without clearing the lock
AfterDaemonGet_keepLock(p) ==
    IF (now # today \/ p.state.Manual) /\ p.state.Override
    THEN Merge(p, [pc |-> "expiry_set"])
    ELSE AfterExpiry(p)

\* main.go:224-232
AfterDaemonGet(p) ==
    IF (now # today \/ p.state.Manual) /\ p.state.Override
    THEN Merge(p, [pc |-> "expiry_set",
                   state |-> [p.state EXCEPT !.Override = FALSE]])
    ELSE AfterExpiry(p)

\* a call of act with on whatever the schedule evaluates to
DoAction_on(p, r) ==
    IF r.err # nil THEN CycleEnd(Merge(p, [err |-> r.err]))
    ELSE Merge(p, [pc |-> "act_get", action |-> onAction, isChange |-> TRUE,
                   err |-> nil])

\* a failed read taken for a State read
DaemonGetFailed_ignored(p) == AfterDaemonGet(p)

\* main.go:238-240: the daemon's getState failed
DaemonGetFailed(p) == CycleEnd(p)

\* main.go:208-214: r is what parseSchedule returned
DoAction(p, r) ==
    IF r.err # nil THEN CycleEnd(Merge(p, [err |-> r.err]))
    ELSE IF r.action # noAction
    THEN Merge(p, [pc |-> "act_get", action |-> r.action, isChange |-> TRUE,
                   err |-> nil])
    ELSE CycleEnd(p)

\* main.go:207-214
AfterSchedGet(p) ==
    Let(parseSchedule(p.state.Schedule, Hour, Minute, IsWeekend(clock.day)),
        LAMBDA r : DoAction(p, r))

\* where the goroutine goes when the getState or setState call it is in
\* returns (p.ioErr is the call's error)
Continue(a, p) ==
    IF p.pc = "act_get"
    THEN IF p.ioErr # nil THEN {ActReturn(p, p.ioErr)} ELSE ActSwitch(a, p)
    ELSE IF p.pc = "override_set"
    THEN IF p.ioErr # nil THEN {ActReturn(p, p.ioErr)} ELSE {Actuate(p)}
    ELSE IF p.pc \in {"calibrate_set", "running_set", "togglelock_set", "schedule_set"}
    THEN {ActReturn(p, p.ioErr)}
    ELSE IF p.pc \in {"display_get", "current_get"}
    THEN {Proc0("w1")}
    ELSE IF p.pc = "daemon_get"
    THEN IF p.ioErr # nil THEN {DaemonGetFailed(p)} ELSE {AfterDaemonGet(p)}
    ELSE IF p.pc = "expiry_set"
    THEN {AfterExpiry(p)}
    ELSE IF p.ioErr # nil THEN {CycleEnd(Merge(p, [err |-> p.ioErr]))}
    ELSE {AfterSchedGet(p)}

(***************************************************************************)
(* Actions                                                                 *)
(***************************************************************************)
SetProc(a, q) == proc' = [proc EXCEPT ![a] = q]
SetObs(a, f)  == obs' = [obs EXCEPT ![a] = Merge(obs[a], f)]

\* doActionCall (main.go:469-492) up to its first call.  The goroutines
\* are interchangeable: a second one is used only while the first is busy.
Request(a, r) ==
    /\ a \in Web
    /\ proc[a].pc = "idle"
    /\ a = "w2" => proc["w1"].pc # "idle"
    /\ reqs < MaxReq
    /\ reqs' = reqs + 1
    /\ IF r.action = isDisplay /\ r.isPost
       THEN UNCHANGED <<proc, obs>>
       ELSE /\ SetProc(a, Merge(proc[a],
                  [pc |-> IF r.action = isDisplay THEN "display_get"
                          ELSE IF r.action = currentAction THEN "current_get"
                          ELSE "act_get",
                   action |-> r.action, isChange |-> r.isPost, form |-> r.form]))
            /\ obs' = [obs EXCEPT ![a] = ObsStart(file)]
    /\ UNCHANGED <<file, mutex, today, now, clock, faults, hist>>

\* a lock that is always granted
CanLock_always(a) == TRUE

\* lock.Lock() of getState and setState (main.go:167, 193)
CanLock(a) == mutex = Free

Lock(a) ==
    /\ proc[a].pc \in GetSites \cup SetSites
    /\ proc[a].io = "none"
    /\ CanLock(a)
    /\ mutex' = a
    /\ SetProc(a, Merge(proc[a], [io |-> "locked", ioErr |-> nil]))
    /\ UNCHANGED <<file, today, now, clock, faults, reqs, obs, hist>>

\* a mutex kept by the caller that goes on to invoke the Actuator
Unlock_held(a, p, e, o) ==
    \E r \in {Merge(p, [ioErr |-> e])} : \E q \in Continue(a, r) :
        /\ mutex' = IF q.pc = "exec" THEN a ELSE Free
        /\ SetProc(a, Merge(q, [io |-> "none"]))
        /\ obs' = [obs EXCEPT ![a] = IF q.pc = "idle" THEN Obs0 ELSE o]

\* the call of getState or setState returns to its caller with error e (for
\* getState, p.state is the State read): defer lock.Unlock(), then the
\* caller's code up to its next call
Unlock(a, p, e, o) ==
    /\ mutex' = Free
    /\ \E r \in {Merge(p, [ioErr |-> e])} : \E q \in Continue(a, r) :
          /\ SetProc(a, Merge(q, [io |-> "none"]))
          /\ obs' = [obs EXCEPT ![a] =
                IF q.pc = "idle" THEN Obs0
                ELSE IF a = Daemon /\ p.pc = "sched_get" /\ q.pc = "act_get"
                THEN Merge(o, [nSet |-> 0, nExec |-> 0, pre |-> file])
                ELSE o]

\* getState returns what it decoded, u (main.go:177-180)
Decoded(a, u, o) ==
    IF u.ok
    THEN Unlock(a, Merge(proc[a], [state |-> u.state]), nil, o)
    ELSE Unlock(a, proc[a], "unexpected end of JSON input", o)

\* the body of getState (main.go:169-181)
ReadFile(a) ==
    /\ proc[a].pc \in GetSites
    /\ proc[a].io = "locked"
    /\ \/ /\ \E u \in {Persisted(file)} :
                Decoded(a, u, Merge(obs[a], [afterLock |-> IF proc[a].pc = "act_get"
                                                           THEN hist.lockWritten
                                                           ELSE obs[a].afterLock,
                                             sawManual |-> IF proc[a].pc = "daemon_get"
                                                           THEN u.ok /\ u.state.Manual
                                                           ELSE obs[a].sawManual]))
          /\ UNCHANGED faults
       \/ /\ faults < MaxFaults
          /\ faults' = faults + 1
          /\ Unlock(a, proc[a], "read failed", Merge(obs[a], [sFault |-> TRUE]))
    /\ UNCHANGED <<file, today, now, clock, reqs, hist>>

\* setState: json.Marshal and the opening of the file by os.WriteFile, which
\* truncates it (main.go:195-199)
OpenFile(a) ==
    /\ proc[a].pc \in SetSites
    /\ proc[a].io = "locked"
    /\ \/ /\ file' = [exists |-> TRUE, data |-> <<>>]
          /\ SetProc(a, Merge(proc[a], [io |-> "opened"]))
          /\ SetObs(a, [nSet |-> obs[a].nSet + 1, wasOvr |-> Locked(Persisted(file))])
          /\ UNCHANGED <<faults, mutex>>
       \/ /\ faults < MaxFaults
          /\ faults' = faults + 1
          /\ Unlock(a, proc[a], "open failed",
                    Merge(obs[a], [nSet |-> obs[a].nSet + 1, sFault |-> TRUE]))
          /\ UNCHANGED file
    /\ UNCHANGED <<today, now, clock, reqs, hist>>

\* the bytes setState writes for the State s
Written(s) == Marshal(s)

\* the history after goroutine a has written the State s at p.pc
HistWrite(a, p, s) ==
    [lockWritten |-> IF a \in Web /\ p.pc = "override_set" THEN TRUE
                     ELSE IF ~s.Override THEN FALSE
                     ELSE hist.lockWritten,
     last |-> IF a = Daemon THEN NoLast ELSE hist.last,
     actuated |-> IF p.pc = "calibrate_set" THEN "void" ELSE hist.actuated]

\* setState: the write of os.WriteFile (main.go:199)
WriteFile(a) ==
    /\ proc[a].pc \in SetSites
    /\ proc[a].io = "opened"
    /\ \/ /\ file' = [exists |-> TRUE, data |-> Written(proc[a].state)]
          /\ Unlock(a, proc[a], nil,
                    Merge(obs[a], [nOvr |-> IF obs[a].wasOvr # proc[a].state.Override
                                             THEN obs[a].nOvr + 1 ELSE obs[a].nOvr]))
          /\ hist' = HistWrite(a, proc[a], proc[a].state)
          /\ UNCHANGED faults
       \/ /\ faults < MaxFaults
          /\ faults' = faults + 1
          /\ Unlock(a, proc[a], "write failed", Merge(obs[a], [sFault |-> TRUE]))
          /\ hist' = [hist EXCEPT !.last = NoLast]
          /\ UNCHANGED file
    /\ UNCHANGED <<today, now, clock, reqs>>

\* an actuation that also sets the lock
ExecOk_locking(p) ==
    Merge(p, [pc |-> "running_set",
              state |-> [p.state EXCEPT !.Running = ~p.state.Running,
                                        !.Override = TRUE]])

\* the Actuator's success not recorded in the copy of the State
ExecOk_unrecorded(p) == Merge(p, [pc |-> "running_set"])

\* the Actuator returned without error: main.go:342
ExecOk(p) ==
    Merge(p, [pc |-> "running_set",
              state |-> [p.state EXCEPT !.Running = ~p.state.Running]])

\* the error of the Actuator dropped
ExecFailed_ignored(p) == ExecOk(p)

\* the Actuator failed: main.go:339-341
ExecFailed(p) == ActReturn(p, "exit status 1")

\* the last argument of the irsend command line: the code name sent
\* (main.go:339)
Command(p) == p.state.OpMode

\* the direction of the on/off being carried out
Direction(p) == IF p.action = onAction THEN "on" ELSE "off"

\* the Actuator: exec.Command(irsend, ...).Run() (main.go:339)
Exec(a) ==
    /\ proc[a].pc = "exec"
    /\ \/ /\ SetProc(a, ExecOk(proc[a]))
          /\ SetObs(a, [nExec |-> obs[a].nExec + 1])
          /\ hist' = [hist EXCEPT !.last = IF a = Daemon THEN NoLast ELSE @,
                                  !.actuated = IF @ = "void" THEN @
                                               ELSE Direction(proc[a])]
          /\ UNCHANGED faults
       \/ /\ faults < MaxFaults
          /\ faults' = faults + 1
          /\ SetProc(a, ExecFailed(proc[a]))
          /\ SetObs(a, [nExec |-> obs[a].nExec + 1, xFault |-> TRUE])
          /\ hist' = [hist EXCEPT !.last = IF a = Daemon THEN NoLast ELSE @]
    /\ UNCHANGED <<file, mutex, today, now, clock, reqs>>

\* act has returned: doActionCall (main.go:488-498) or doScheduled and
\* schedulerDaemon (main.go:212, 234-236)
Return(a) ==
    /\ proc[a].pc = "act_ret"
    /\ IF a = Daemon
       THEN SetProc(a, CycleEnd(proc[a])) /\ UNCHANGED <<obs, hist>>
       ELSE /\ hist' = [hist EXCEPT !.last =
                   IF proc[a].err = nil /\ proc[a].isChange
                   THEN [action |-> proc[a].action, pre |-> obs[a].pre]
                   ELSE NoLast]
            /\ IF proc[a].err # nil \/ proc[a].isChange
               THEN SetProc(a, Proc0(a)) /\ obs' = [obs EXCEPT ![a] = Obs0]
               ELSE SetProc(a, Merge(proc[a], [pc |-> "display_get"])) /\ UNCHANGED obs
    /\ UNCHANGED <<file, mutex, today, now, clock, faults, reqs>>

\* schedulerDaemon: time.Sleep returns, now := time.Now() (main.go:221-222)
Wake ==
    /\ proc[Daemon].pc = "sleep"
    /\ now' = clock.day
    /\ SetProc(Daemon, Merge(proc[Daemon], [pc |-> "daemon_get"]))
    /\ obs' = [obs EXCEPT ![Daemon] = ObsStart(file)]
    /\ UNCHANGED <<file, mutex, today, clock, faults, reqs, hist>>

\* schedulerDaemon: today = now (main.go:241)
EndCycle ==
    /\ proc[Daemon].pc = "cycle_end"
    /\ today' = now
    /\ SetProc(Daemon, Proc0(Daemon))
    /\ obs' = [obs EXCEPT ![Daemon] = Obs0]
    /\ UNCHANGED <<file, mutex, now, clock, faults, reqs, hist>>

\* time passes
Tick ==
    /\ \E i \in 1..Len(TimeSlots) :
          /\ clock = ClockAt(clock.day, i)
          /\ \/ /\ i < Len(TimeSlots)
                /\ clock' = ClockAt(clock.day, i + 1)
             \/ /\ i = Len(TimeSlots)
                /\ clock.day < MaxDay
                /\ clock' = ClockAt(clock.day + 1, 1)
    /\ UNCHANGED <<file, mutex, proc, today, now, faults, reqs, obs, hist>>

\* one step of goroutine a, the requests being drawn from R
Step(a, R) ==
    \/ \E r \in R : Request(a, r)
    \/ Lock(a)
    \/ ReadFile(a)
    \/ OpenFile(a)
    \/ WriteFile(a)
    \/ Exec(a)
    \/ Return(a)
    \/ (a = Daemon /\ Wake)
    \/ (a = Daemon /\ EndCycle)

AtRest(a) == proc[a].pc = Rest(a)

\* one goroutine at a time: a call runs to its end before another begins
SeqNext ==
    \/ \E a \in Actors : Step(a, Requests) /\ \A b \in Actors \ {a} : AtRest(b)
    \/ Tick

SeqSpec == Init /\ [][SeqNext]_vars

\* the daemon runs concurrently with the requests, which are served one
\* after the other
Next == (\E a \in {Daemon, "w1"} : Step(a, ConcRequests)) \/ Tick

Spec == ConcInit /\ [][Next]_vars

\* the daemon with requests that only display the state; the goroutines
\* are scheduled fairly: time.Sleep returns, the mutex is granted, calls
\* return
LiveNext == (\E a \in {Daemon, "w1"} : Step(a, LiveRequests)) \/ Tick

LiveSpec ==
    /\ LiveInit
    /\ [][LiveNext]_vars
    /\ WF_vars(Step(Daemon, LiveRequests))
    /\ WF_vars(Lock("w1") \/ ReadFile("w1"))

\* one step of the daemon
DaemonStep ==
    \/ Wake
    \/ Lock(Daemon)
    \/ ReadFile(Daemon)
    \/ OpenFile(Daemon)
    \/ WriteFile(Daemon)
    \/ Exec(Daemon)
    \/ Return(Daemon)
    \/ EndCycle

\* the daemon alone, evaluating a stored schedule at a fixed time, with no
\* failure of the storage or the Actuator
EvalInit == \E c \in EvalClocks : InitFrom(EvalStates, c, MaxFaults, MaxReq)

EvalSpec == EvalInit /\ [][DaemonStep]_vars

(***************************************************************************)
(* The file-marker variant (src/serve/core.go): the state is the presence  *)
(* of the files lock, running and acmode in the library directory, held    *)
(* here in the variable file; doActionCall and doScheduled hold the mutex  *)
(* for the whole of their call of act.                                     *)
(***************************************************************************)
acmodeAction == <<"a", "c", "m", "o", "d", "e">>
AC           == <<"A", "C">>

\* the marker files that may exist when the program starts
Markers == [lock : BOOLEAN, running : BOOLEAN, acmode : BOOLEAN]

MarkerProc0 == [pc |-> "idle", action |-> noAction, isChange |-> FALSE,
                canChange |-> TRUE, isOn |-> FALSE, err |-> nil]

\* observations of the act call in progress: the markers when it began, its
\* Actuator invocations, whether the Actuator failed, the mode sent
MarkerObs(f) == [pre |-> f, nExec |-> 0, xFault |-> FALSE, mode |-> <<>>]

\* the actions a caller may pass to act
MarkerActions == {onAction, offAction, calibrateAction, togglelockAction,
                  acmodeAction, bogusAction}

\* the calls of act: by doActionCall for a request, by doScheduled with the
\* action of the schedule
MarkerCalls(a) ==
    IF a = Daemon THEN [action : {onAction, offAction}, isChange : {TRUE}]
    ELSE [action : MarkerActions, isChange : BOOLEAN]

MarkerInit ==
    /\ file \in Markers
    /\ mutex = Free
    /\ proc = [a \in Actors |-> MarkerProc0]
    /\ today = 0
    /\ now = 0
    /\ clock = ClockAt(0, 1)
    /\ faults = 0
    /\ reqs = 0
    /\ obs = [a \in Actors |-> MarkerObs([lock |-> FALSE, running |-> FALSE,
                                           acmode |-> FALSE])]
    /\ hist = Hist0

\* context.mode (core.go:134-145)
mode(f, start) ==
    (IF f.acmode THEN AC ELSE HEAT) \o (IF start THEN commandStart ELSE commandStop)

\* act returns e
MarkerReturns(p, e) == Merge(p, [pc |-> "act_ret", err |-> e])

\* core.go:186-190, 191-284: canChange and the branch taken for the action
MarkerBranch(a, c, f) ==
    LET p == Merge(MarkerProc0,
                   [action |-> c.action, isChange |-> c.isChange,
                    canChange |-> ~(f.lock /\ ~webRequest(a)),
                    isOn |-> c.action = onAction])
    IN  IF ~c.isChange THEN MarkerReturns(p, nil)
        ELSE IF c.action = calibrateAction THEN Merge(p, [pc |-> "calibrate"])
        ELSE IF c.action \in {onAction, offAction} THEN Merge(p, [pc |-> "lock_now"])
        ELSE IF c.action = togglelockAction THEN Merge(p, [pc |-> "togglelock"])
        ELSE IF c.action = acmodeAction THEN Merge(p, [pc |-> "acmode"])
        ELSE MarkerReturns(p, nil)

\* core.go:207-221: after lockNow, whether the running marker is to change
MarkerDecide(p, f) ==
    IF p.canChange /\ (p.isOn # f.running)
    THEN Merge(p, [pc |-> "mark"])
    ELSE MarkerReturns(p, nil)

\* the file operation the call is at, done: the markers after it and the
\* call's next position (core.go:193-201, 204, 209-220, 230-238, 271-279)
MarkerDone(a, p, f) ==
    IF p.pc = "calibrate"
    THEN [file |-> [f EXCEPT !.running = ~@], proc |-> MarkerReturns(p, nil)]
    ELSE IF p.pc = "togglelock"
    THEN [file |-> [f EXCEPT !.lock = ~@], proc |-> MarkerReturns(p, nil)]
    ELSE IF p.pc = "acmode"
    THEN [file |-> [f EXCEPT !.acmode = ~@], proc |-> MarkerReturns(p, nil)]
    ELSE IF p.pc = "lock_now"
    THEN [file |-> [f EXCEPT !.lock = @ \/ webRequest(a)],
          proc |-> MarkerDecide(p, f)]
    ELSE [file |-> [f EXCEPT !.running = p.isOn],
          proc |-> Merge(p, [pc |-> "actuate"])]

\* doActionCall (core.go:359-373) and doScheduled (84-100) take the mutex
\* and call act
MarkerCall(a) ==
    /\ a \in {Daemon, "w1"}
    /\ proc[a].pc = "idle"
    /\ mutex = Free
    /\ reqs < MaxReq
    /\ reqs' = reqs + 1
    /\ mutex' = a
    /\ \E c \in MarkerCalls(a) : SetProc(a, MarkerBranch(a, c, file))
    /\ obs' = [obs EXCEPT ![a] = MarkerObs(file)]
    /\ UNCHANGED <<file, today, now, clock, faults, hist>>

\* write and os.Remove on a marker file (core.go:181-183)
MarkerFile(a) ==
    /\ proc[a].pc \in {"calibrate", "togglelock", "acmode", "lock_now", "mark"}
    /\ \/ /\ \E d \in {MarkerDone(a, proc[a], file)} :
                /\ file' = d.file
                /\ SetProc(a, d.proc)
          /\ UNCHANGED faults
       \/ /\ proc[a].pc = "lock_now" => webRequest(a)
          /\ faults < MaxFaults
          /\ faults' = faults + 1
          /\ SetProc(a, MarkerReturns(proc[a], "write failed"))
          /\ UNCHANGED file
    /\ UNCHANGED <<mutex, today, now, clock, reqs, obs, hist>>

\* context.actuate (core.go:226-228, 402-404)
MarkerActuate(a) ==
    /\ proc[a].pc = "actuate"
    /\ \/ /\ SetProc(a, MarkerReturns(proc[a], nil))
          /\ SetObs(a, [nExec |-> obs[a].nExec + 1,
                         mode |-> mode(file, proc[a].isOn)])
          /\ UNCHANGED faults
       \/ /\ faults < MaxFaults
          /\ faults' = faults + 1
          /\ SetProc(a, MarkerReturns(proc[a], "exit status 1"))
          /\ SetObs(a, [nExec |-> obs[a].nExec + 1, xFault |-> TRUE,
                         mode |-> mode(file, proc[a].isOn)])
    /\ UNCHANGED <<file, mutex, today, now, clock, reqs, hist>>

\* act has returned: the deferred lock.Unlock()
MarkerReturn(a) ==
    /\ proc[a].pc = "act_ret"
    /\ mutex' = Free
    /\ SetProc(a, MarkerProc0)
    /\ UNCHANGED <<file, today, now, clock, faults, reqs, obs, hist>>

MarkerNext ==
    \E a \in {Daemon, "w1"} :
        MarkerCall(a) \/ MarkerFile(a) \/ MarkerActuate(a) \/ MarkerReturn(a)

MarkerSpec == MarkerInit /\ [][MarkerNext]_vars

(***************************************************************************)
(* Properties                                                              *)
(***************************************************************************)
\* the act call of goroutine a has returned to its caller
ActDone(a) == proc[a].pc = "act_ret"

\* the persisted State when the act call of a began, and now
Pre(a) == Persisted(obs[a].pre)
Post   == Persisted(file)

\* no read, write or Actuator invocation of the call has failed
NoFault(a) == ~obs[a].sFault /\ ~obs[a].xFault

\* s holds no byte that is not valid UTF-8
ValidUTF8(s) == \A i \in 1..Len(s) : s[i] # BAD

\* the call was a POST of on or off that would change the appliance, made
\* while the lock was persisted
LockedToggle(a) ==
    /\ ActDone(a)
    /\ proc[a].isChange
    /\ proc[a].action \in {onAction, offAction}
    /\ Pre(a).ok
    /\ Pre(a).state.Override
    /\ (proc[a].action = onAction) # Pre(a).state.Running

\* an act call of the daemon made while the lock was persisted invokes
\* no Actuator and leaves the file as it was
C1_Autonomous ==
    (ActDone(Daemon) /\ Pre(Daemon).ok /\ Pre(Daemon).state.Override)
        => /\ obs[Daemon].nExec = 0
           /\ obs[Daemon].nSet = 0
           /\ file = obs[Daemon].pre

\* the interactive call has invoked the Actuator once and persisted the
\* flipped Running with the lock still set
C1_Actuated(a) ==
    /\ obs[a].nExec = 1
    /\ Post.ok
    /\ Post.state.Running = ~Pre(a).state.Running
    /\ Post.state.Override

\* C1 as stated: with Override persisted, an on/off by the daemon neither
\* invokes the Actuator nor changes the persisted State, and the same call
\* by a web request, when it would change the appliance, invokes the
\* Actuator once and persists the flipped Running (no failure injected).
C1_Original ==
    /\ C1_Autonomous
    /\ \A a \in Web : (LockedToggle(a) /\ NoFault(a)) => C1_Actuated(a)

\* C1, amended: the interactive half holds when State.OpMode is one of the
\* configured operation modes and no read, write or Actuator invocation
\* fails; the call then returns no error.
C1_LockEnforced ==
    /\ C1_Autonomous
    /\ \A a \in Web :
          (LockedToggle(a) /\ NoFault(a) /\ ValidMode(Pre(a).state.OpMode))
              => (proc[a].err = nil /\ C1_Actuated(a))

C1_Witness ==
    \E a \in Web : LockedToggle(a) /\ ValidMode(Pre(a).state.OpMode) /\ obs[a].nExec = 1

\* the daemon, inside act, invokes the Actuator
DaemonActuates == proc[Daemon].pc = "exec" /\ proc'[Daemon].pc # "exec"

\* the daemon, inside act, writes the State file
DaemonPersists ==
    proc[Daemon].pc = "running_set" /\ proc[Daemon].io = "opened" /\ file' # file

\* C2 as stated: once an interactive on/off has persisted Override = true,
\* the daemon's act invokes no Actuator and writes no State, under every
\* interleaving.
C2_Original == [][hist.lockWritten => ~(DaemonActuates \/ DaemonPersists)]_vars

\* C2, amended: an act call of the daemon whose getState ran after the
\* interactive on/off had persisted Override = true (and before any write
\* persisted Override = false) invokes no Actuator and calls no setState;
\* it returns nil.  A call that had read the State earlier is not covered.
C2_LockSeen ==
    obs[Daemon].afterLock
        => /\ proc[Daemon].pc \in {"act_ret", "cycle_end"}
           /\ proc[Daemon].err = nil
           /\ obs[Daemon].nExec = 0
           /\ obs[Daemon].nSet = 0

C2_Witness == obs[Daemon].afterLock /\ ActDone(Daemon)

\* C3: when the Actuator invocation fails, act returns that error and the
\* persisted Running is what it was before the call.
C3_ActuatorFailure ==
    \A a \in Actors :
        (ActDone(a) /\ obs[a].xFault)
            => /\ proc[a].err = "exit status 1"
               /\ Pre(a).ok /\ Post.ok
               /\ Post.state.Running = Pre(a).state.Running

C3_Witness == \E a \in Actors : ActDone(a) /\ obs[a].xFault /\ obs[a].nExec = 1

\* C4 as stated: when act returns an error (the reads and writes
\* themselves not failing), it has called no setState and the file is what
\* it was before the call.
C4_NoWriteOnError ==
    \A a \in Actors :
        (ActDone(a) /\ proc[a].err # nil /\ ~obs[a].sFault)
            => (obs[a].nSet = 0 /\ file = obs[a].pre)

\* an interactive on/off has returned an error after persisting the lock
C4_Witness ==
    \E a \in Web :
        /\ ActDone(a) /\ proc[a].err # nil /\ ~obs[a].sFault
        /\ obs[a].nSet = 1
        /\ Post.ok /\ Post.state.Override /\ ~Pre(a).state.Override

\* C5 as stated: when act returns nil and the persisted State has changed,
\* exactly one setState call was made.
C5_OneWrite ==
    \A a \in Actors :
        (ActDone(a) /\ proc[a].err = nil /\ file # obs[a].pre) => obs[a].nSet = 1

\* an interactive on/off has succeeded with two setState calls
C5_Witness ==
    \E a \in Web : ActDone(a) /\ proc[a].err = nil /\ obs[a].nSet = 2 /\ obs[a].nExec = 1

\* the call was a POST of calibrate
Calibrated(a) == ActDone(a) /\ proc[a].isChange /\ proc[a].action = calibrateAction

\* C6: calibrate negates the persisted Running whatever Override and Manual
\* are, invokes no Actuator and changes nothing else; two calibrate calls
\* in a row, nothing else acting in between, restore the State.
C6_Calibrate ==
    \A a \in Web :
        /\ (Calibrated(a) /\ ~obs[a].sFault /\ Pre(a).ok)
              => /\ proc[a].err = nil
                 /\ obs[a].nExec = 0
                 /\ obs[a].nSet = 1
                 /\ Post = [ok |-> TRUE,
                            state |-> [Pre(a).state EXCEPT !.Running = ~Pre(a).state.Running]]
        /\ (Calibrated(a) /\ proc[a].err = nil /\ hist.last.action = calibrateAction)
              => /\ obs[a].pre # hist.last.pre
                 /\ Post = Persisted(hist.last.pre)

C6_Witness ==
    \E a \in Web :
        /\ Calibrated(a) /\ proc[a].err = nil /\ hist.last.action = calibrateAction
        /\ Post.state.Override /\ Post.state.Manual

\* the daemon has finished the work of a cycle that began on a new day
\* with the lock persisted, no read or write failing
ExpiryDue ==
    /\ proc[Daemon].pc = "cycle_end"
    /\ now # today
    /\ Locked(Persisted(obs[Daemon].cyc))
    /\ ~obs[Daemon].sFault

\* C7: in the first daemon cycle after the day changed, begun with
\* Override persisted, the persisted Override is false when the cycle
\* ends, and exactly one write of the cycle changed it.
C7_Expiry == ExpiryDue => (Post.ok /\ ~Post.state.Override /\ obs[Daemon].nOvr = 1)

C7_Witness == ExpiryDue /\ ~Post.state.Manual /\ obs[Daemon].nOvr = 1

\* the State file can be decoded
Readable == Persisted(file).ok

\* the day has advanced past the day of the daemon's last cycle while the
\* lock is persisted
ExpiryPending == clock.day # today /\ Locked(Persisted(file))

\* the persisted Override is false
Expired == Readable /\ ~Persisted(file).state.Override

\* C8 as stated: if the file stays readable from some point on and no
\* request sets the lock again, a lock persisted when the day advances is
\* eventually cleared by the daemon, even after a failure in its first
\* cycle of the new day.
C8_EventualExpiry == (<>[]Readable) => (ExpiryPending ~> Expired)

\* the daemon sleeps with today caught up with the new day and the lock
\* still persisted in a readable file
C8_Witness ==
    /\ proc[Daemon].pc = "sleep"
    /\ today = clock.day /\ today > 0
    /\ Locked(Persisted(file))
    /\ ~Persisted(file).state.Manual

\* the act call of a has returned nil after at least one setState, its
\* last one having written proc[a].state
Stored(a) == ActDone(a) /\ proc[a].err = nil /\ obs[a].nSet > 0 /\ ~obs[a].sFault

\* C9 as stated: getState after setState(s) returns a State equal to s in
\* every field, for every State s.
C9_Original ==
    \A a \in Actors : Stored(a) => Post = [ok |-> TRUE, state |-> proc[a].state]

\* C9, amended: the round trip holds for every State whose OpMode and
\* Schedule are valid UTF-8; the file holds the State of the latest
\* setState alone.
C9_RoundTrip ==
    \A a \in Actors :
        (Stored(a) /\ ValidUTF8(proc[a].state.OpMode) /\ ValidUTF8(proc[a].state.Schedule))
            => Post = [ok |-> TRUE, state |-> proc[a].state]

C9_Witness ==
    \E a \in Actors :
        /\ Stored(a)
        /\ proc[a].state.OpMode = <<BS, LT>>
        /\ proc[a].state.Schedule = SchedOdd
        /\ Post.state = proc[a].state

\* goroutine a is inside getState or setState
Inside(a) == proc[a].io \in {"locked", "opened"}

\* C10: at most one goroutine is inside getState or setState at a time, it
\* is the holder of the mutex, and the file is half-written (truncated, not
\* yet filled) only while its writer is inside setState, so no getState
\* reads it in that state.
C10_Mutex ==
    /\ \A a, b \in Actors : (Inside(a) /\ Inside(b)) => a = b
    /\ \A a \in Actors : Inside(a) <=> mutex = a
    /\ (file.exists /\ file.data = <<>>)
          => \E w \in Actors : proc[w].io = "opened" /\ proc[w].pc \in SetSites

\* the daemon is writing while a request waits for the mutex in getState
C10_Witness ==
    /\ proc[Daemon].io = "opened"
    /\ file.data = <<>>
    /\ \E a \in Web : proc[a].pc \in GetSites /\ proc[a].io = "none"

\* the persisted State has Manual = true
ManualPersisted == Readable /\ Post.state.Manual

\* C11 as stated: once Manual = true is persisted the daemon invokes no
\* Actuator and changes no Running, under every interleaving of the
\* interactive schedule request with a daemon cycle in progress.
C11_Original == [][ManualPersisted => ~DaemonActuates]_vars

\* C11, amended: a daemon cycle whose own getState returned Manual = true
\* never calls doScheduled or act: it invokes no Actuator, and its only
\* setState call, if any, is the write that clears the lock in the State
\* it read.  A cycle that read the State before Manual = true was
\* persisted is not covered.
C11_ManualSeen ==
    obs[Daemon].sawManual
        => /\ proc[Daemon].pc \in {"expiry_set", "cycle_end"}
           /\ proc[Daemon].state.Manual
           /\ obs[Daemon].nExec = 0
           /\ obs[Daemon].nSet <= 1
           /\ obs[Daemon].nSet = 1 => ~proc[Daemon].state.Override

\* the daemon ends a cycle in which it read Manual = true, set by a
\* request, and cleared the lock
C11_Witness ==
    /\ obs[Daemon].sawManual
    /\ proc[Daemon].pc = "cycle_end"
    /\ obs[Daemon].nSet = 1
    /\ reqs = MaxReq
    /\ ManualPersisted


\* no goroutine is inside a request or a daemon cycle
Quiet == \A a \in Actors : AtRest(a)

\* the persisted Running is that of the latest successful Actuator
\* invocation
RunningTracks == Post.state.Running = (hist.actuated = "on")

\* C12 as stated: in a run without calibrate and without concurrent act
\* calls, whenever no call is in progress the persisted Running is true
\* exactly when the latest successful Actuator invocation was for on, also
\* when a setState call has failed.
C12_RunningReflects ==
    (Quiet /\ hist.actuated # "void" /\ Readable) => RunningTracks

\* an on has been actuated, its setState has failed and the readable file
\* still says Running = false
C12_Witness ==
    /\ Quiet /\ Readable
    /\ hist.actuated = "on"
    /\ ~Post.state.Running
    /\ faults = 1


\* the daemon has evaluated the schedule it read: doScheduled is about to
\* call act, or has returned without calling it
EvalDone ==
    /\ ~obs[Daemon].sFault
    /\ ~proc[Daemon].state.Manual
    /\ \/ proc[Daemon].pc = "act_get" /\ proc[Daemon].io = "none"
       \/ proc[Daemon].pc = "cycle_end" /\ proc[Daemon].action = noAction

\* the schedule text evaluated, the action returned (noAction for none) and
\* the error returned
EvalSchedule == proc[Daemon].state.Schedule
EvalResult   == proc[Daemon].action
EvalErr      == proc[Daemon].err

\* the day type of today
DayType == IF IsWeekend(clock.day) THEN weekendType ELSE weekdayType

\* the action of the rule with the greatest hour not after the current
\* hour, or off when every rule is later
Expected(rules) ==
    LET C == {i \in 1..Len(rules) : rules[i].hour <= Hour}
    IN  IF C = {} THEN offAction
        ELSE rules[CHOOSE i \in C : \A j \in C : rules[j].hour <= rules[i].hour].action

\* the schedule [0 8 on, 0 18 off] of today's day type
EightToSix == <<Rule(0, 8, DayType, onAction), Rule(0, 18, DayType, offAction)>>

\* C13: for a schedule of valid lines of today's day type, with minute 0
\* and ascending hours, the evaluation returns the action of the rule with
\* the greatest hour not after the current hour, or off when the current
\* hour is before every rule; [0 8 on, 0 18 off] gives on at 09:00, off at
\* 19:00 and off at 07:00.
C13_AscendingSchedule ==
    /\ \A rules \in Ascending(DayType) :
          (EvalDone /\ EvalSchedule = RulesText(rules))
              => (EvalErr = nil /\ EvalResult = Expected(rules))
    /\ (EvalDone /\ EvalSchedule = RulesText(EightToSix) /\ Minute = 0)
          => /\ Hour = 9 => EvalResult = onAction
             /\ Hour = 19 => EvalResult = offAction
             /\ Hour = 7 => EvalResult = offAction

C13_Witness ==
    /\ EvalDone
    /\ EvalSchedule = RulesText(EightToSix)
    /\ ~IsWeekend(clock.day) /\ Hour = 9 /\ Minute = 0
    /\ EvalResult = onAction

\* the schedule '0 9 weekend on' has been evaluated
WeekendEvaluated == EvalDone /\ EvalSchedule = RulesText(WeekendRule)

\* C14 as stated: '0 9 weekend on' evaluated on a weekday returns none, and
\* on a Saturday or Sunday at 10:00 returns on.
C14_Original ==
    WeekendEvaluated
        => IF IsWeekend(clock.day) THEN Hour = 10 => EvalResult = onAction
           ELSE EvalErr = nil /\ EvalResult = noAction

\* C14, amended: '0 9 weekend on' evaluated on a weekday returns off, the
\* action of the synthetic 00:00 rule, and on a Saturday or Sunday returns
\* on from 09:00 on (at 10:00 in particular) and off before.
C14_WeekendRule ==
    WeekendEvaluated
        => /\ EvalErr = nil
           /\ EvalResult = IF IsWeekend(clock.day) /\ Hour >= 9 THEN onAction
                           ELSE offAction

C14_Witness ==
    WeekendEvaluated /\ ~IsWeekend(clock.day) /\ Hour = 10 /\ EvalResult = offAction

C16_InvalidLine ==
    (EvalDone /\ EvalSchedule \in InvalidTexts)
        => /\ EvalErr # nil
           /\ EvalResult = noAction
           /\ proc[Daemon].pc = "cycle_end"
           /\ obs[Daemon].nExec = 0 /\ obs[Daemon].nSet = 0

C16_Witness ==
    /\ EvalDone
    /\ EvalSchedule = Valid1 \o <<NL>> \o Valid2 \o <<NL>> \o SchedBad
    /\ EvalErr = "minute is invalid"
    /\ EvalResult = noAction


\* the call was a POST of togglelock
Toggled(a) == ActDone(a) /\ proc[a].isChange /\ proc[a].action = togglelockAction

\* C17: togglelock negates the persisted Override whatever Manual and
\* Running are, invokes no Actuator and leaves OpMode, Schedule, Manual and
\* Running as they were; two togglelock calls in a row, nothing else acting
\* in between, restore the Override.
C17_ToggleLock ==
    \A a \in Web :
        /\ (Toggled(a) /\ ~obs[a].sFault /\ Pre(a).ok)
              => /\ proc[a].err = nil
                 /\ obs[a].nExec = 0
                 /\ obs[a].nSet = 1
                 /\ Post = [ok |-> TRUE,
                            state |-> [Pre(a).state EXCEPT !.Override = ~Pre(a).state.Override]]
        /\ (Toggled(a) /\ proc[a].err = nil /\ hist.last.action = togglelockAction)
              => /\ obs[a].pre # hist.last.pre
                 /\ Post = Persisted(hist.last.pre)

C17_Witness ==
    \E a \in Web :
        /\ Toggled(a) /\ proc[a].err = nil /\ hist.last.action = togglelockAction
        /\ Post.state.Manual /\ Post.state.Running /\ Post.state.Override

\* the call was a POST of schedule that returned no error
Scheduled(a) ==
    ActDone(a) /\ proc[a].isChange /\ proc[a].action = scheduleAction /\ proc[a].err = nil

\* the operation mode, the manual flag and the schedule a form asks for,
\* old being the mode persisted before
FormMode(form, old) ==
    IF "opmode" \in form.keys /\ TrimSpace(Join(form.opmode, <<>>)) # noopMode
    THEN TrimSpace(Join(form.opmode, <<>>)) ELSE old
FormManual(form) == "manual" \in form.keys
FormSchedule(form) ==
    IF "sched" \in form.keys THEN TrimSpace(Join(form.sched, <<NL>>)) ELSE <<>>

\* C18: a successful schedule call makes one setState call, with the State
\* it read in which OpMode, Manual and the trimmed Schedule are those of
\* the form, invokes no Actuator, and leaves the persisted Running and
\* Override as they were; the file then holds that State (strings that are
\* not valid UTF-8 apart, which the encoding replaces).
C18_ScheduleCommit ==
    \A a \in Web :
        Scheduled(a)
            => /\ obs[a].nSet = 1
               /\ obs[a].nExec = 0
               /\ Pre(a).ok
               /\ proc[a].state =
                     [Pre(a).state EXCEPT !.OpMode = FormMode(proc[a].form, @),
                                          !.Manual = FormManual(proc[a].form),
                                          !.Schedule = FormSchedule(proc[a].form)]
               /\ Post.ok
               /\ Post.state.Running = Pre(a).state.Running
               /\ Post.state.Override = Pre(a).state.Override
               /\ Post.state.Manual = FormManual(proc[a].form)
               /\ (ValidUTF8(proc[a].state.OpMode) /\ ValidUTF8(proc[a].state.Schedule))
                     => Post.state = proc[a].state

\* a schedule with white space around it has replaced another State
C18_Witness ==
    \E a \in Web :
        /\ Scheduled(a)
        /\ proc[a].form = FormDay
        /\ Pre(a).state.Manual /\ Pre(a).state.Override /\ Pre(a).state.Running
        /\ Pre(a).state.OpMode = <<>>
        /\ Post.state = [OpMode |-> HEAT, Schedule |-> SchedDay, Manual |-> FALSE,
                         Override |-> TRUE, Running |-> TRUE]

\* the call was for an action name act does not know
Unknown(a) ==
    /\ ActDone(a)
    /\ proc[a].action \notin {calibrateAction, onAction, offAction, togglelockAction,
                              scheduleAction}

\* C19: for an unknown action name act calls no setState, invokes no
\* Actuator and leaves the file as it was; it returns nil when its
\* getState has returned a State.
C19_UnknownAction ==
    \A a \in Web :
        Unknown(a)
            => /\ obs[a].nSet = 0
               /\ obs[a].nExec = 0
               /\ file = obs[a].pre
               /\ (~obs[a].sFault /\ Pre(a).ok) => proc[a].err = nil

C19_Witness ==
    \E a \in Web :
        /\ Unknown(a) /\ proc[a].isChange /\ proc[a].action = bogusAction
        /\ proc[a].err = nil
        /\ Post.ok /\ Post.state.Override /\ Post.state.Running


\* the daemon is in idle-wait (time.Sleep)
Sleeping == proc[Daemon].pc = "sleep"

\* a call of the daemon's cycle in progress has returned an error
CycleFailed ==
    obs[Daemon].sFault \/ obs[Daemon].xFault \/ proc[Daemon].err # nil

\* C20: the daemon never terminates on error: every cycle it starts
\* completes, also one in which getState, setState, the schedule parser or
\* the Actuator returns an error, and from idle-wait it starts another.
C20_DaemonContinues ==
    /\ (~Sleeping) ~> Sleeping
    /\ CycleFailed ~> Sleeping
    /\ Sleeping ~> (proc[Daemon].pc = "daemon_get")

\* the daemon has started a cycle after one in which a call failed
C20_Witness ==
    /\ proc[Daemon].pc = "daemon_get"
    /\ faults > 0
    /\ reqs = MaxReq - 1


\* the reference list L: the synthetic rule (00:00, off), then the rules of
\* today's day type in file order
RefList(rules) ==
    <<Rule(0, 0, DayType, offAction)>> \o SelectSeq(rules, LAMBDA r : r.dayType = DayType)

\* the length of the prefix P of L: up to, and without, the first rule
\* whose hour and minute are both after the current ones
RefCut(L) ==
    Least({i \in 1..Len(L) : L[i].hour > Hour /\ L[i].min > Minute} \cup {Len(L) + 1}) - 1

\* the action of the last rule among the first n of L whose hour and minute
\* are both not after the current ones
RefMatch(L, n) ==
    LET M == {i \in 1..n : L[i].hour <= Hour /\ L[i].min <= Minute}
    IN  L[CHOOSE i \in M : \A j \in M : j <= i].action

\* C21: for every schedule of valid lines and every current time the
\* evaluation returns the action of the last rule of P that is not after
\* the current time component-wise, P being the prefix of L (the synthetic
\* rule, then today's rules in file order) before the first rule that is
\* after the current time in both hour and minute.
C21_MatchingReference ==
    \A rules \in ValidRules :
        (EvalDone /\ EvalSchedule = RulesText(rules))
            => /\ EvalErr = nil
               /\ EvalResult = RefMatch(RefList(rules), RefCut(RefList(rules)))

\* the scan has stopped at 10:45 before the rule at 09:00 that matches
C21_Witness ==
    /\ EvalDone
    /\ EvalSchedule = RulesText(<<Rule(45, 10, weekdayType, offAction),
                                  Rule(0, 9, weekdayType, onAction)>>)
    /\ ~IsWeekend(clock.day) /\ Hour = 9 /\ Minute = 30
    /\ EvalResult = offAction

\* the schedule '50 0 <day> on' of today's day type has been evaluated at
\* 23:05
LateEvaluated ==
    EvalDone /\ EvalSchedule = RulesText(LateRule(DayType)) /\ Hour = 23 /\ Minute = 5

\* C22: the comparison is component-wise: at 23:05 the rule '50 0 <day> on'
\* of today's day type does not match and the evaluation returns off, the
\* action of the synthetic rule.
C22_ComponentWise == LateEvaluated => (EvalErr = nil /\ EvalResult = offAction)

C22_Witness == LateEvaluated /\ IsWeekend(clock.day) /\ EvalResult = offAction


\* the call was a POST of on or off by a web request whose getState
\* returned a State
WebToggle(a) ==
    /\ a \in Web
    /\ ActDone(a)
    /\ proc[a].isChange
    /\ proc[a].action \in {onAction, offAction}
    /\ Pre(a).ok

\* the requested direction is the Running the call read
SameDirection(a) == (proc[a].action = onAction) = Pre(a).state.Running

\* C23: an interactive on/off persists Override = true when the State it
\* read has Manual = false, whatever act returns afterwards, and also when
\* the requested direction is already the Running it read, in which case
\* it makes this one write and invokes no Actuator; when Manual = true it
\* leaves the persisted Override as it was, and writes only if it actuates.
C23_InteractiveLock ==
    \A a \in Web :
        /\ (WebToggle(a) /\ ~Pre(a).state.Manual /\ ~obs[a].sFault)
              => /\ Post.ok /\ Post.state.Override
                 /\ obs[a].nSet >= 1
                 /\ SameDirection(a)
                       => (proc[a].err = nil /\ obs[a].nSet = 1 /\ obs[a].nExec = 0)
        /\ (WebToggle(a) /\ Pre(a).state.Manual)
              => /\ Post.ok => Post.state.Override = Pre(a).state.Override
                 /\ obs[a].nSet = obs[a].nExec - (IF obs[a].xFault THEN 1 ELSE 0)

\* an on for an appliance recorded as running has only persisted the lock
C23_Witness ==
    \E a \in Web :
        /\ WebToggle(a) /\ ~Pre(a).state.Manual /\ ~Pre(a).state.Override
        /\ SameDirection(a)
        /\ obs[a].nExec = 0 /\ obs[a].nSet = 1
        /\ Post.state.Override


\* the call was an on or off with isChange true whose getState returned a
\* State
Toggle(a) ==
    /\ ActDone(a)
    /\ proc[a].isChange
    /\ proc[a].action \in {onAction, offAction}
    /\ Pre(a).ok

\* C24: with no concurrent actor an on/off call invokes the Actuator at
\* most once, and only when it may change the State and the direction
\* differs from the Running it read; after a successful call that may
\* change the State the persisted Running is (action = on), and the same
\* action repeated invokes no Actuator.
C24_AtMostOnce ==
    \A a \in Actors :
        Toggle(a)
            => /\ obs[a].nExec <= 1
               /\ obs[a].nExec = 1 => (proc[a].canChange /\ ~SameDirection(a))
               /\ (proc[a].err = nil /\ proc[a].canChange)
                     => (Post.ok /\ Post.state.Running = (proc[a].action = onAction))
               /\ (proc[a].err = nil /\ hist.last.action = proc[a].action)
                     => (obs[a].nExec = 0 /\ file = obs[a].pre)

\* an on has been repeated after an on that actuated
C24_Witness ==
    \E a \in Web :
        /\ Toggle(a) /\ proc[a].err = nil
        /\ proc[a].action = onAction /\ hist.last.action = onAction
        /\ ~Persisted(hist.last.pre).state.Running
        /\ obs[a].nExec = 0
        /\ Post.state.Running


\* the act call of goroutine a is at its Actuator invocation
Invoking(a) == proc[a].pc = "exec"

\* the postfix of the mode token for an action
Postfix(action) == IF action = onAction THEN commandStart ELSE commandStop

\* the same call carrying the opposite action
Opposite(p) ==
    [p EXCEPT !.action = IF p.action = onAction THEN offAction ELSE onAction]

\* C25: every Actuator invocation of act passes State.OpMode followed by
\* START for on and by STOP for off, so that the tokens sent for on and for
\* off under one OpMode differ
C25_ModeToken ==
    \A a \in Actors :
        Invoking(a)
            => /\ Command(proc[a]) = proc[a].state.OpMode \o Postfix(proc[a].action)
               /\ Command(proc[a]) # Command(Opposite(proc[a]))

\* an on is being actuated and the code name sent is the bare OpMode, the
\* one an off would send
C25_Witness ==
    \E a \in Actors :
        /\ Invoking(a)
        /\ proc[a].action = onAction
        /\ Command(proc[a]) = HEAT
        /\ Command(Opposite(proc[a])) = HEAT

\* the error parseSchedule returns for the sched field of a form
FormErr(form) ==
    parseSchedule(Join(form.sched, <<NL>>), Hour, Minute, IsWeekend(clock.day)).err

\* the call was a POST of schedule whose sched field fails validation
Rejected(a) ==
    /\ ActDone(a) /\ proc[a].isChange /\ proc[a].action = scheduleAction
    /\ "sched" \in proc[a].form.keys
    /\ FormErr(proc[a].form) # nil

\* C26: a schedule call whose sched field fails validation makes no
\* setState call and no Actuator invocation and leaves the file as it was,
\* in every order of the form's keys; when its getState succeeded it
\* returns the parse error
C26_InvalidSched ==
    \A a \in Web :
        Rejected(a)
            => /\ obs[a].nSet = 0
               /\ obs[a].nExec = 0
               /\ file = obs[a].pre
               /\ (~obs[a].sFault /\ Pre(a).ok) => proc[a].err = FormErr(proc[a].form)

\* an invalid schedule submitted with another mode and the manual flag has
\* been refused and the persisted State keeps its mode and Manual = false
C26_Witness ==
    \E a \in Web :
        /\ Rejected(a)
        /\ proc[a].form = FormBad
        /\ proc[a].err = FormErr(FormBad)
        /\ file.exists /\ Post.ok
        /\ Post.state.OpMode # HEAT
        /\ ~Post.state.Manual

\* the sched text a form submits: its values joined by newlines
Submitted(form) == IF "sched" \in form.keys THEN Join(form.sched, <<NL>>) ELSE <<>>

\* the form names an operation mode other than the sentinel
NamesMode(form) == "opmode" \in form.keys /\ Join(form.opmode, <<>>) # noopMode

\* C27 as stated: after a successful schedule call the persisted Manual is
\* true exactly when the form had a manual field, the persisted Schedule is
\* the submitted sched text (empty when absent; taken for a text of valid
\* UTF-8, which the encoding keeps), and OpMode has changed only when an
\* opmode field other than noop was present
C27_Original ==
    \A a \in Web :
        Scheduled(a)
            => /\ Post.ok
               /\ Post.state.Manual = FormManual(proc[a].form)
               /\ ValidUTF8(Submitted(proc[a].form))
                     => Post.state.Schedule = Submitted(proc[a].form)
               /\ Post.state.OpMode # Pre(a).state.OpMode => NamesMode(proc[a].form)

\* C27: after a successful schedule call the persisted Manual is true
\* exactly when the form had a manual field, the persisted Schedule is the
\* submitted sched text with the white space around it removed (empty when
\* absent; a text of valid UTF-8), and OpMode has changed only when an
\* opmode field other than noop was present
C27_FormCommit ==
    \A a \in Web :
        Scheduled(a)
            => /\ Post.ok
               /\ Post.state.Manual = FormManual(proc[a].form)
               /\ ValidUTF8(Submitted(proc[a].form))
                     => Post.state.Schedule = TrimSpace(Submitted(proc[a].form))
               /\ Post.state.OpMode # Pre(a).state.OpMode => NamesMode(proc[a].form)

\* a schedule submitted with white space after it and without the manual
\* field has turned Manual off and is persisted without the white space
C27_Witness ==
    \E a \in Web :
        /\ Scheduled(a)
        /\ proc[a].form = FormDay
        /\ Pre(a).state.Manual
        /\ ~Post.state.Manual
        /\ Submitted(FormDay) # SchedDay
        /\ Post.state.Schedule = SchedDay

\* the daemon's call at pc returns in this step, with or without error
Left(pc) == proc[Daemon].pc = pc /\ proc'[Daemon].pc # pc
LeftOk(pc) == Left(pc) /\ proc'[Daemon].ioErr = nil

\* what the schedule the daemon has just read evaluates to
Evaluated ==
    parseSchedule(proc'[Daemon].state.Schedule, Hour, Minute, IsWeekend(clock.day))

\* the daemon's next position is the call of act for action, as schedulerDaemon
\* makes it: act(action, true, nil, ctx)
CallsAct(action) ==
    /\ proc'[Daemon].pc = "act_get"
    /\ proc'[Daemon].action = action
    /\ proc'[Daemon].isChange
    /\ ~webRequest(Daemon)

\* C28: a daemon cycle whose initial getState returned Manual = true goes
\* from that read to the end of the cycle, through the write that clears
\* the lock at most: it does not evaluate the schedule, call act or invoke
\* the Actuator.  A cycle whose initial getState returned Manual = false
\* goes on to doScheduled, and when the read and the parse of doScheduled
\* succeed it calls act with the action evaluated, as an autonomous call.
C28_ManualGate ==
    [][/\ (obs[Daemon].sawManual /\ proc'[Daemon] # proc[Daemon])
            => proc'[Daemon].pc \in {"expiry_set", "cycle_end", "sleep"}
       /\ (LeftOk("daemon_get") /\ proc'[Daemon].state.Manual)
            => /\ proc'[Daemon].pc \in {"expiry_set", "cycle_end"}
               /\ obs'[Daemon].sawManual
       /\ (LeftOk("daemon_get") /\ ~proc'[Daemon].state.Manual)
            => /\ proc'[Daemon].pc \in {"expiry_set", "sched_get"}
               /\ ~obs'[Daemon].sawManual
       /\ (LeftOk("expiry_set") /\ ~proc[Daemon].state.Manual)
            => proc'[Daemon].pc = "sched_get"
       /\ (LeftOk("sched_get") /\ Evaluated.err = nil)
            => /\ Evaluated.action \in {onAction, offAction}
               /\ CallsAct(Evaluated.action)
       /\ proc'[Daemon].pc = "act_get" => Left("sched_get") \/ proc[Daemon].pc = "act_get"
      ]_vars

\* the daemon, having read Manual = false, is calling act with on, the action
\* its schedule evaluates to
C28_Witness ==
    /\ proc[Daemon].pc = "act_get"
    /\ proc[Daemon].io = "none"
    /\ proc[Daemon].action = onAction
    /\ proc[Daemon].isChange
    /\ ~obs[Daemon].sawManual
    /\ ~proc[Daemon].state.Manual
    /\ parseSchedule(proc[Daemon].state.Schedule, Hour, Minute,
                     IsWeekend(clock.day)).action = onAction

\* the getState that begins the daemon's cycle has failed and the daemon is
\* at the end of that cycle
ReadFailed ==
    /\ proc[Daemon].pc = "cycle_end"
    /\ proc[Daemon].ioErr # nil
    /\ proc[Daemon].err = nil
    /\ obs[Daemon].nSet = 0

\* C29: when the getState that begins a daemon cycle fails, the daemon goes
\* straight to the end of the cycle, having made no setState call and no
\* Actuator invocation and leaving the file as it is, and from there to
\* idle-wait and into the next cycle.
C29_ReadFailure ==
    /\ [][(Left("daemon_get") /\ proc'[Daemon].ioErr # nil)
            => /\ ReadFailed'
               /\ obs'[Daemon].nExec = 0
               /\ file' = file]_vars
    /\ [][(ReadFailed /\ proc'[Daemon] # proc[Daemon])
            => /\ proc'[Daemon].pc = "sleep"
               /\ today' = now
               /\ file' = file]_vars
    /\ ReadFailed ~> (proc[Daemon].pc = "daemon_get")

\* the read that begins a cycle has failed while the file holds a lock and
\* a schedule for the daemon to act on, and the file is as it was
C29_Witness ==
    /\ ReadFailed
    /\ obs[Daemon].sFault
    /\ file = obs[Daemon].cyc
    /\ file.exists
    /\ Post.ok /\ Post.state.Override /\ ~Post.state.Manual

\* C30: when the setState that persists the cleared Override fails, the
\* rest of the daemon's cycle is skipped: the daemon goes to the end of the
\* cycle and not on to doScheduled
C30_ExpiryFailureSkips ==
    [][(Left("expiry_set") /\ proc'[Daemon].ioErr # nil)
            => proc'[Daemon].pc = "cycle_end"]_vars

\* the daemon is calling act in a cycle in which its write of the cleared
\* Override has failed, the file still holding the lock
C30_Witness ==
    /\ proc[Daemon].pc = "act_get"
    /\ obs[Daemon].sFault
    /\ proc[Daemon].action \in {onAction, offAction}
    /\ Post.ok /\ Post.state.Override /\ ~Post.state.Manual

\* the on/off call of goroutine a has invoked the Actuator with success
Invoked(a) ==
    /\ proc[a].pc \in {"running_set", "act_ret", "cycle_end"}
    /\ proc[a].action \in {onAction, offAction}
    /\ obs[a].nExec = 1
    /\ ~obs[a].xFault

\* the calls of a and b have both invoked the Actuator for on and returned
\* without error
BothOn(a, b) ==
    /\ a # b
    /\ Invoked(a) /\ Invoked(b)
    /\ proc[a].action = onAction /\ proc[b].action = onAction
    /\ proc[a].pc # "running_set" /\ proc[b].pc # "running_set"
    /\ proc[a].err = nil /\ proc[b].err = nil

\* C31: act decides from the State its own getState returned, not from the
\* file: a call that has invoked the Actuator had read the Running opposite
\* to its action (its copy, negated after the invocation, holds the Running
\* of its action), whatever another call has persisted since; two
\* concurrent on calls can therefore both read Running = false and both
\* invoke the Actuator, and the file then records one transition, Running
\* = true.
C31_DocumentedRace ==
    \A a \in Actors :
        Invoked(a)
            => /\ proc[a].state.Running = (proc[a].action = onAction)
               /\ \A b \in Actors : BothOn(a, b) => (Post.ok /\ Post.state.Running)

\* the daemon's call and a request's call, both for on and both begun with
\* Running = false persisted, have each invoked the Actuator
C31_Witness ==
    /\ BothOn(Daemon, "w1")
    /\ ~Pre(Daemon).state.Running
    /\ ~Pre("w1").state.Running
    /\ obs[Daemon].nExec + obs["w1"].nExec = 2
    /\ Post.state.Running

\* the fields of a State other than Override
Others(s) == [s EXCEPT !.Override = FALSE]

\* the daemon's expiry write reaches the file in this step
ExpiryWritten ==
    /\ proc[Daemon].pc = "expiry_set"
    /\ proc[Daemon].io = "opened"
    /\ LeftOk("expiry_set")

\* C32: the State the daemon's expiry step writes is the one its getState
\* returned, with Override cleared: it is fixed when that read returns, is
\* not refreshed before the write, and replaces the file whole, so that a
\* change a request has committed in between is overwritten.
C32_LostUpdate ==
    [][/\ (Left("daemon_get") /\ proc'[Daemon].pc = "expiry_set")
            => /\ Persisted(file).ok
               /\ proc'[Daemon].state = Others(Persisted(file).state)
       /\ (proc[Daemon].pc = "expiry_set" /\ proc'[Daemon].pc = "expiry_set")
            => proc'[Daemon].state = proc[Daemon].state
       /\ ExpiryWritten
            => file' = [exists |-> TRUE, data |-> Written(proc[Daemon].state)]
      ]_vars

\* a calibrate request has returned without error, having persisted the
\* negated Running, and the daemon's expiry write has since put back the
\* Running it had read before
C32_Witness ==
    /\ ActDone("w1")
    /\ proc["w1"].action = calibrateAction
    /\ proc["w1"].isChange
    /\ proc["w1"].err = nil
    /\ obs["w1"].nSet = 1
    /\ proc[Daemon].pc = "sched_get"
    /\ proc[Daemon].io = "none"
    /\ obs[Daemon].nSet = 1
    /\ obs[Daemon].nExec = 0
    /\ Post.ok
    /\ Post.state = proc[Daemon].state
    /\ Post.state.Running # proc["w1"].state.Running

\* the daemon's initial getState returns in this step the State of the file,
\* with the given Manual and Override
InitialRead(manual, override) ==
    /\ LeftOk("daemon_get")
    /\ Persisted(file).state.Manual = manual
    /\ Persisted(file).state.Override = override

\* the daemon's next call is the setState of the State it read with
\* Override cleared
Expires ==
    /\ proc'[Daemon].pc = "expiry_set"
    /\ proc'[Daemon].state = Others(Persisted(file).state)

\* C33: a daemon cycle whose initial read returns Manual = true and
\* Override = true goes on to persist Override = false on any day, and its
\* write, when it succeeds, leaves Override = false in the file; one whose
\* read returns Manual = false and Override = true does so exactly when the
\* day differs from that of the previous cycle, which every cycle records
\* at its end; a cycle that reads Override = false writes no expiry.
C33_ManualExpiry ==
    [][/\ InitialRead(TRUE, TRUE) => Expires
       /\ InitialRead(FALSE, TRUE) => (Expires <=> now # today)
       /\ (InitialRead(TRUE, FALSE) \/ InitialRead(FALSE, FALSE))
            => proc'[Daemon].pc # "expiry_set"
       /\ ExpiryWritten => (Persisted(file').ok /\ ~Persisted(file').state.Override)
       /\ (proc[Daemon].pc = "cycle_end" /\ proc'[Daemon].pc = "sleep")
            => today' = now
      ]_vars

\* on the day of its previous cycle the daemon has read Manual = true with
\* the lock set and has persisted Override = false
C33_Witness ==
    /\ proc[Daemon].pc = "cycle_end"
    /\ obs[Daemon].sawManual
    /\ now = today
    /\ Locked(Persisted(obs[Daemon].cyc))
    /\ obs[Daemon].nSet = 1
    /\ obs[Daemon].nOvr = 1
    /\ Post.ok /\ Post.state.Manual /\ ~Post.state.Override

\* the on/off call of a in the file-marker variant has returned after its
\* Actuator invocation failed
MarkerFailed(a) ==
    /\ proc[a].pc = "act_ret"
    /\ proc[a].action \in {onAction, offAction}
    /\ obs[a].xFault

\* C34: in the file-marker variant, when the Actuator invocation of an
\* on/off call fails the call returns the error and the running marker is
\* present or absent as it was before the call
C34_MarkerUnchanged ==
    \A a \in Actors :
        MarkerFailed(a)
            => /\ proc[a].err # nil
               /\ file.running = obs[a].pre.running

\* an on request made with no running marker has returned the Actuator's
\* error and the running marker exists
C34_Witness ==
    /\ MarkerFailed("w1")
    /\ proc["w1"].action = onAction
    /\ proc["w1"].err # nil
    /\ ~obs["w1"].pre.running
    /\ file.running

\* goroutine a is inside a setState call
Setting(a) == proc[a].pc \in SetSites

\* the setState call of a is about to persist Override = true over a file
\* that held Override = false
Raises(a) ==
    /\ Setting(a)
    /\ proc[a].io = "opened"
    /\ ~obs[a].wasOvr
    /\ proc[a].state.Override

\* C35 as stated: no setState of the daemon writes Override = true, and
\* the persisted Override becomes true only through an interactive on/off
\* or togglelock
C35_Original ==
    /\ Setting(Daemon) => ~proc[Daemon].state.Override
    /\ \A a \in Actors :
          Raises(a) => /\ a \in Web
                       /\ proc[a].action \in {onAction, offAction, togglelockAction}

\* C35: no setState of the daemon, in its expiry step or in an autonomous
\* act, writes Override = true, under every interleaving with requests;
\* the persisted Override becomes true only through the setState of an
\* interactive request
C35_DaemonNeverLocks ==
    /\ Setting(Daemon) => ~proc[Daemon].state.Override
    /\ \A a \in Actors : Raises(a) => a \in Web

\* the daemon's autonomous act is persisting Override = false over the lock
\* a request has persisted since the daemon's read
C35_Witness ==
    /\ proc[Daemon].pc = "running_set"
    /\ proc[Daemon].io = "opened"
    /\ obs[Daemon].wasOvr
    /\ ~proc[Daemon].state.Override
    /\ hist.lockWritten

\* what the persisted schedule evaluates to now
Scheduled_now ==
    parseSchedule(Post.state.Schedule, Hour, Minute, IsWeekend(clock.day))

\* the daemon is at the end of a cycle and the persisted schedule is valid
CycleOver == proc[Daemon].pc = "cycle_end" /\ Post.ok /\ Scheduled_now.err = nil

\* Running was, when the cycle began, what the schedule asks for
Settled == Persisted(obs[Daemon].cyc).state.Running = (Scheduled_now.action = onAction)

\* C36: with Manual = false, Override = false, a configured OpMode, a valid
\* schedule, no failure and no request, a daemon cycle ends without error
\* with the persisted Running equal to (evaluated action = on); it invokes
\* the Actuator and calls setState once when Running was not yet so, and
\* not at all when it was, as in every further cycle with the same
\* evaluated action.
C36_Convergence ==
    CycleOver
        => /\ proc[Daemon].err = nil
           /\ proc[Daemon].action = Scheduled_now.action
           /\ Post.state.Running = (Scheduled_now.action = onAction)
           /\ IF Settled
              THEN obs[Daemon].nExec = 0 /\ obs[Daemon].nSet = 0 /\ file = obs[Daemon].cyc
              ELSE obs[Daemon].nExec = 1 /\ obs[Daemon].nSet = 1

\* after a cycle that has actuated off from Running = true, a further
\* cycle has ended without an Actuator invocation or a setState call
C36_Witness ==
    /\ CycleOver
    /\ Settled
    /\ hist.actuated = "off"
    /\ Scheduled_now.action = offAction
    /\ obs[Daemon].nExec = 0
    /\ obs[Daemon].nSet = 0
    /\ ~Post.state.Running

\* goroutine a serves a request that is not a POST, or one for display or
\* current
ReadOnly(a) ==
    /\ proc[a].pc # "idle"
    /\ ~proc[a].isChange \/ proc[a].action \in {isDisplay, currentAction}

\* C37: a request that is not a POST, whatever its action, and a request
\* for display or current make no setState call and no Actuator invocation
\* and leave the file as it was
C37_ReadOnly ==
    \A a \in Web :
        ReadOnly(a)
            => /\ proc[a].pc \notin SetSites \cup {"exec"}
               /\ obs[a].nSet = 0
               /\ obs[a].nExec = 0
               /\ file = obs[a].pre

\* a GET of calibrate has gone through act and is displaying the State,
\* the file being as it was
C37_Witness ==
    \E a \in Web :
        /\ ReadOnly(a)
        /\ proc[a].pc = "display_get"
        /\ proc[a].action = calibrateAction
        /\ ~proc[a].isChange
        /\ file.exists
        /\ file = obs[a].pre

\* times at which a schedule may be parsed: a Thursday and a Saturday, at
\* the start and at the end of the day
SampleClocks == [day : {0, 2}, hour : {0, 23}, min : {0, 59}] \ [day : {0, 2}, hour : {0}, min : {59}]

\* parseSchedule rejects the text s at the time c
ParseFails(s, c) == parseSchedule(s, c.hour, c.min, IsWeekend(c.day)).err # nil

\* the errors parseSchedule returns
ParseErrs ==
    {"invalid schedule line", "schedule can only be 'on' or 'off'",
     "strconv.Atoi", "hour is invalid", "minute is invalid", "invalid day type"}

\* whether a text is rejected is the same at every time
TimeIndependent ==
    \A s \in ValidTexts \cup InvalidTexts :
        \A c, d \in SampleClocks : ParseFails(s, c) = ParseFails(s, d)

\* the decoded file u holds a Schedule that is accepted at every time
Accepted(u) == u.ok => \A c \in SampleClocks : ~ParseFails(u.state.Schedule, c)

\* doScheduled is about to read the State whose Schedule it will parse
AboutToParse == proc[Daemon].pc = "sched_get" /\ proc[Daemon].io = "locked"

\* C38: whether parseSchedule fails does not depend on the time or the day
\* of the week; the Schedule in the file when act("schedule") has returned
\* without error, and when doScheduled reads it, is accepted at every time,
\* and no daemon cycle ends with a parse error.
C38_ParseIndependent ==
    /\ TimeIndependent
    /\ (AboutToParse \/ \E a \in Web : Scheduled(a))
          => Let(Post, LAMBDA u : Accepted(u))
    /\ proc[Daemon].err \notin ParseErrs

\* the daemon, on the day after a schedule request replaced an empty
\* Schedule, has parsed the persisted schedule and is calling act
C38_Witness ==
    /\ hist.last.action = scheduleAction
    /\ Persisted(hist.last.pre).state.Schedule = <<>>
    /\ proc[Daemon].pc = "act_get"
    /\ proc[Daemon].io = "none"
    /\ proc[Daemon].state.Schedule = SchedDay
    /\ clock.day = 1

\* m is one of the configured operation modes
Configured(m) == m \in {opModes[i] : i \in 1..Len(opModes)}

\* the on/off call of a has returned; it read the State without failure,
\* was permitted to change it and found Running opposite to its action and
\* an OpMode that is not configured
Unconfigured(a) ==
    /\ Toggle(a)
    /\ ~obs[a].sFault
    /\ proc[a].canChange
    /\ ~SameDirection(a)
    /\ ~Configured(proc[a].state.OpMode)

\* C39: the Actuator is invoked only with a configured OpMode; an on/off
\* call that would actuate with an OpMode that is not configured returns
\* 'invalid mode', invokes no Actuator and leaves the persisted Running as
\* it was.
C39_ConfiguredMode ==
    \A a \in Actors :
        /\ Invoking(a) => Configured(proc[a].state.OpMode)
        /\ obs[a].nExec > 0 => Configured(proc[a].state.OpMode)
        /\ Unconfigured(a)
              => /\ proc[a].err = "invalid mode"
                 /\ obs[a].nExec = 0
                 /\ Post.ok
                 /\ Post.state.Running = Pre(a).state.Running

\* after a schedule request has stored an OpMode that is not configured,
\* an on request has returned 'invalid mode' and Running is still false
C39_Witness ==
    \E a \in Web :
        /\ Unconfigured(a)
        /\ proc[a].action = onAction
        /\ proc[a].err = "invalid mode"
        /\ hist.last.action = scheduleAction
        /\ proc[a].state.OpMode = <<BS, LT>>
        /\ obs[a].nExec = 0
        /\ ~Post.state.Running

\* goroutine a is inside a getState or setState call: waiting for the mutex
\* or holding it
InCall(a) == proc[a].pc \in GetSites \cup SetSites
Holds(a)  == proc[a].io \in {"locked", "opened"}

\* the getState or setState call of a can take its next step
CanProceed(a) ==
    IF ~Holds(a) THEN ENABLED Lock(a)
    ELSE IF proc[a].pc \in GetSites THEN ENABLED ReadFile(a)
    ELSE IF proc[a].io = "locked" THEN ENABLED OpenFile(a)
    ELSE ENABLED WriteFile(a)

\* C40: the mutex is held exactly by the goroutine that is between the
\* Lock and the return of a getState or setState call, never by one that
\* is invoking the Actuator, and is taken only when free; its holder can
\* always go on to release it, and while a goroutine is at an Actuator
\* invocation, which may never return, the getState or setState call of
\* another goroutine can take its next step.
C40_NoMutexDeadlock ==
    \A a \in Actors :
        /\ (mutex = a) <=> (InCall(a) /\ Holds(a))
        /\ Invoking(a) => (mutex # a /\ ~Holds(a))
        /\ (InCall(a) /\ ~Holds(a)) => (ENABLED Lock(a) <=> mutex = Free)
        /\ (mutex = a \/ (InCall(a) /\ \E b \in Actors \ {a} : Invoking(b)))
              => CanProceed(a)

\* while the daemon is at its Actuator invocation the request handler has
\* taken the mutex for a call of its own
C40_Witness ==
    /\ Invoking(Daemon)
    /\ InCall("w1")
    /\ mutex = "w1"

=============================================================================
